---- MODULE Spec2Model ----
(***************************************************************************)
(* Model of the scholarship store (server/db.ts: AirtableStorage and the   *)
(* three module-level caches) and of the request handlers that drive it    *)
(* (routes: unnamed/part_003).                                             *)
(*                                                                         *)
(* Conventions.                                                            *)
(*  - A JavaScript object is a function whose DOMAIN is the set of keys    *)
(*    that hold a value; a key whose value is undefined is absent.         *)
(*  - A backend table is a sequence of records [id, fields], in creation   *)
(*    order; the backend keeps the fields exactly as they were written.    *)
(*  - Every backend call of an operation is numbered; the operation takes  *)
(*    the set t of call numbers that throw.                                *)
(*  - new Date().toISOString() is the value of clock; randomUUID() and the *)
(*    backend's record ids are drawn from two counters.                    *)
(***************************************************************************)
EXTENDS Integers, Sequences, FiniteSets, TLC

(* ------------------------------ bounds --------------------------------- *)
\* number of operations of one run
MaxOps == 3

(* --------------------------- object helpers ---------------------------- *)
EmptyObj == [k \in {} |-> k]

Has(o, k) == k \in DOMAIN o

\* { ...a, ...b }
Spread(a, b) == b @@ a

\* { ...objs[1], ...objs[2], ... }
RECURSIVE SpreadAll(_)
SpreadAll(objs) ==
  IF objs = <<>> THEN EmptyObj
  ELSE Spread(objs[1], SpreadAll(Tail(objs)))

\* the object o restricted to the keys of ks it has
Pick(o, ks) == [k \in DOMAIN o \cap ks |-> o[k]]

\* a set that leaves only the entry it writes
MapSetAlone(m, k, v) == (k :> v)

\* Map.set(k, v)
MapSet(m, k, v) == (k :> v) @@ m

\* Map.get(k) || []
MapGetList(m, k) == IF k \in DOMAIN m THEN m[k] ELSE <<>>

\* a string-valued field that is present and not the empty string
TruthyStr(o, k) == Has(o, k) /\ o[k] # ""

\* o[k] || dflt, for string-valued fields
OrElse(o, k, dflt) == IF TruthyStr(o, k) THEN o[k] ELSE dflt

\* o[k1] || o[k2]  (as an object holding key "v" when the result is truthy)
Either(o, k1, k2) ==
  IF TruthyStr(o, k1) THEN [v |-> o[k1]]
  ELSE IF TruthyStr(o, k2) THEN [v |-> o[k2]]
  ELSE EmptyObj

\* does call number k of the running operation throw
Throws(t, k) == k \in t

\* base(table).find(id)
FindRecord(tbl, id) ==
  LET hits == {i \in 1..Len(tbl) : tbl[i].id = id}
  IN IF hits = {} THEN EmptyObj ELSE [rec |-> tbl[CHOOSE i \in hits : TRUE]]

\* a generator that returns one value every time
uuidRepeated(n) == "uuid-x"

\* randomUUID(): the n-th value generated
uuid(n) == "uuid-" \o ToString(n)

recordId(n) == "rec" \o ToString(n)

(* ------------------------------ state ---------------------------------- *)
VARIABLES
  useAirtable,         \* AirtableStorage.useAirtable: backend configured
  profileStorage,      \* Map<string, StudentProfile>
  matchStorage,        \* Map<string, ScholarshipMatch[]>
  applicationStorage,  \* Map<string, ScholarshipApplication[]>
  tblProfiles,         \* backend table student_profiles
  tblScholarships,     \* backend table scholarships
  tblMatches,          \* backend table scholarship_matches
  tblGuidance,         \* backend table application_guidance
  uuidCount,           \* randomUUID() calls so far
  recCount,            \* record ids the backend has assigned so far
  clock,               \* the current time
  res,                 \* the last operation: its inputs and its outcome
  cleared,             \* history: [done] clearAllScholarships has completed and
                       \* no scholarship has been created since; [held] the
                       \* records it fetched
  calls,               \* the async calls in flight: request -> its position
                       \* and the locals it holds across an await
  payment              \* the Payment page: its component state, the pending
                       \* timers and the router location

caches == <<profileStorage, matchStorage, applicationStorage>>
tables == <<tblProfiles, tblScholarships, tblMatches, tblGuidance>>
vars == <<useAirtable, profileStorage, matchStorage, applicationStorage,
          tblProfiles, tblScholarships, tblMatches, tblGuidance,
          uuidCount, recCount, clock, res, cleared, calls, payment>>

(* ------------------------- student profiles ---------------------------- *)
\* the keys of insertStudentProfileSchema
ProfileKeys ==
  {"name", "email", "phone", "location", "educationLevel", "fieldOfStudy",
   "gpa", "graduationYear", "skills", "activities", "financialNeed",
   "summary", "education", "experience", "projects"}

\* z.string().email(), over the addresses of the model
IsEmail(s) == s \in {"ana@example.org", "bo@example.org"}

\* insertStudentProfileSchema.parse(body) succeeds (partial: .partial())
ProfileParses(body, partial) ==
  /\ partial \/ {"name", "email", "location"} \subseteq DOMAIN body
  /\ Has(body, "name") => body.name # ""
  /\ Has(body, "email") => IsEmail(body.email)
  /\ Has(body, "location") => body.location # ""

\* what parse returns: unknown keys are stripped
ProfileParsed(body) == Pick(body, ProfileKeys)

\* skills.join(", "): a text is a sequence of words and separators
RECURSIVE JoinSkills(_)
JoinSkills(skills) ==
  IF skills = <<>> THEN <<>>
  ELSE IF Len(skills) = 1 THEN <<skills[1]>>
  ELSE <<skills[1], ", ">> \o JoinSkills(Tail(skills))

\* text.split(',').map(trim).filter(s => s)
RECURSIVE SplitSkills(_)
SplitSkills(text) ==
  IF text = <<>> THEN <<>>
  ELSE IF Head(text) \in {", ", ""} THEN SplitSkills(Tail(text))
  ELSE <<Head(text)>> \o SplitSkills(Tail(text))

\* the fields createStudentProfile writes to the backend
CreateProfileFields(profile, now) ==
  [Name |-> profile.name,
   Email |-> profile.email,
   Location |-> OrElse(profile, "location", ""),
   EducationLevel |-> OrElse(profile, "educationLevel", ""),
   FieldOfStudy |-> OrElse(profile, "fieldOfStudy", ""),
   GPA |-> OrElse(profile, "gpa", ""),
   GraduationYear |-> OrElse(profile, "graduationYear", ""),
   Skills |-> IF Has(profile, "skills") THEN JoinSkills(profile.skills) ELSE <<>>,
   Activities |-> OrElse(profile, "activities", ""),
   FinancialNeed |-> OrElse(profile, "financialNeed", ""),
   CreatedAt |-> now,
   UpdatedAt |-> now]

\* NewProfile with updatedAt read from the clock a second time
NewProfileLateStamp(id, profile, now) ==
  Spread(Pick(profile, ProfileKeys),
         [id |-> id, createdAt |-> now, updatedAt |-> now + 1])

\* the entity createStudentProfile builds, on either path
NewProfile(id, profile, now) ==
  Spread(Pick(profile, ProfileKeys),
         [id |-> id, createdAt |-> now, updatedAt |-> now])

\* the fields updateStudentProfile writes to the backend
UpdateProfileFields(profile, now) ==
  LET copy(from, to) ==
        IF TruthyStr(profile, from) THEN (to :> profile[from]) ELSE EmptyObj
      skills == IF Has(profile, "skills")
                THEN [Skills |-> JoinSkills(profile.skills)] ELSE EmptyObj
  IN SpreadAll(<<copy("name", "Name"),
                  copy("email", "Email"),
                  copy("location", "Location"),
                  copy("educationLevel", "EducationLevel"),
                  copy("fieldOfStudy", "FieldOfStudy"),
                  copy("gpa", "GPA"),
                  copy("graduationYear", "GraduationYear"),
                  skills,
                  copy("activities", "Activities"),
                  copy("financialNeed", "FinancialNeed"),
                  [UpdatedAt |-> now]>>)

mapToStudentProfile(record, now) ==
  LET f == record.fields
      opt(from, to) == IF Has(f, from) THEN (to :> f[from]) ELSE EmptyObj
      skills == IF Has(f, "Skills") /\ f.Skills # <<>>
                THEN [skills |-> SplitSkills(f.Skills)] ELSE EmptyObj
  IN SpreadAll(<<[id |-> record.id,
                   name |-> OrElse(f, "Name", ""),
                   email |-> OrElse(f, "Email", ""),
                   location |-> OrElse(f, "Location", ""),
                   createdAt |-> IF Has(f, "CreatedAt") THEN f.CreatedAt ELSE now,
                   updatedAt |-> IF Has(f, "UpdatedAt") THEN f.UpdatedAt ELSE now],
                  opt("Phone", "phone"),
                  opt("EducationLevel", "educationLevel"),
                  opt("FieldOfStudy", "fieldOfStudy"),
                  opt("GPA", "gpa"),
                  opt("GraduationYear", "graduationYear"),
                  skills,
                  opt("Activities", "activities"),
                  opt("FinancialNeed", "financialNeed"),
                  opt("Summary", "summary"),
                  opt("Education", "education"),
                  opt("Experience", "experience"),
                  opt("Projects", "projects")>>)

\* getStudentProfileById that answers a failed fetch with an empty profile
getStudentProfileByIdPlaceholder(profileId, t) ==
  LET placeholder == [id |-> profileId, name |-> "", email |-> "", location |-> "",
                      createdAt |-> clock, updatedAt |-> clock]
  IN IF profileId \in DOMAIN profileStorage
     THEN [found |-> TRUE, profile |-> profileStorage[profileId],
           cache |-> profileStorage, source |-> "cache"]
     ELSE IF ~useAirtable
     THEN [found |-> FALSE, cache |-> profileStorage, source |-> "none"]
     ELSE IF Throws(t, 1)
     THEN [found |-> TRUE, profile |-> placeholder,
           cache |-> profileStorage, source |-> "backend"]
     ELSE IF FindRecord(tblProfiles, profileId) = EmptyObj
     THEN [found |-> FALSE, cache |-> profileStorage, source |-> "backend"]
     ELSE LET profile == mapToStudentProfile(FindRecord(tblProfiles, profileId).rec, clock)
          IN [found |-> TRUE, profile |-> profile,
              cache |-> MapSet(profileStorage, profileId, profile),
              source |-> "backend"]

\* getStudentProfileById that asks a configured backend before the cache
getStudentProfileByIdBackendFirst(profileId, t) ==
  IF useAirtable /\ ~Throws(t, 1) /\ FindRecord(tblProfiles, profileId) # EmptyObj
  THEN LET profile == mapToStudentProfile(FindRecord(tblProfiles, profileId).rec, clock)
       IN [found |-> TRUE, profile |-> profile,
           cache |-> MapSet(profileStorage, profileId, profile),
           source |-> "backend"]
  ELSE IF useAirtable
  THEN [found |-> FALSE, cache |-> profileStorage, source |-> "backend"]
  ELSE IF profileId \in DOMAIN profileStorage
  THEN [found |-> TRUE, profile |-> profileStorage[profileId],
        cache |-> profileStorage, source |-> "cache"]
  ELSE [found |-> FALSE, cache |-> profileStorage, source |-> "none"]

\* getStudentProfileById: [found, profile, cache, source]; call 1 is the find
getStudentProfileById(profileId, t) ==
  IF profileId \in DOMAIN profileStorage
  THEN [found |-> TRUE, profile |-> profileStorage[profileId],
        cache |-> profileStorage, source |-> "cache"]
  ELSE IF ~useAirtable
  THEN [found |-> FALSE, cache |-> profileStorage, source |-> "none"]
  ELSE IF Throws(t, 1) \/ FindRecord(tblProfiles, profileId) = EmptyObj
  THEN [found |-> FALSE, cache |-> profileStorage, source |-> "backend"]
  ELSE LET profile == mapToStudentProfile(FindRecord(tblProfiles, profileId).rec, clock)
       IN [found |-> TRUE, profile |-> profile,
           cache |-> MapSet(profileStorage, profileId, profile),
           source |-> "backend"]

\* an existing entity that falls back to the backend's record
ExistingProfileFromBackend(id, now) ==
  IF id \in DOMAIN profileStorage THEN profileStorage[id]
  ELSE IF useAirtable /\ FindRecord(tblProfiles, id) # EmptyObj
  THEN mapToStudentProfile(FindRecord(tblProfiles, id).rec, now)
  ELSE [id |-> id, name |-> "", email |-> "", location |-> "",
        createdAt |-> now, updatedAt |-> now]

\* the existing entity updateStudentProfile merges onto
ExistingProfile(id, now) ==
  IF id \in DOMAIN profileStorage THEN profileStorage[id]
  ELSE [id |-> id, name |-> "", email |-> "", location |-> "",
        createdAt |-> now, updatedAt |-> now]

\* a merge that keeps the existing values of the fields the payload carries
MergedProfileKeepExisting(existing, profile, now) ==
  Spread(Spread(profile, existing), [updatedAt |-> now])

\* { ...existingProfile, ...profile, updatedAt: now }
MergedProfile(existing, profile, now) ==
  Spread(Spread(existing, profile), [updatedAt |-> now])

\* base(table).update([{id, fields}]) on a table that holds the record
UpdateRecord(tbl, id, fields) ==
  [i \in 1..Len(tbl) |->
     IF tbl[i].id = id
     THEN [id |-> id, fields |-> Spread(tbl[i].fields, fields)]
     ELSE tbl[i]]

(* ----------------------------- JSON text ------------------------------- *)
\* A JSON text is a sequence of tokens: [t |-> "["], [t |-> "]"], [t |-> ","],
\* a quoted string [t |-> "str", s |-> ...] or anything else [t |-> "raw", ...].
JStr(x) == [t |-> "str", s |-> x]

RECURSIVE JSONItems(_)
JSONItems(list) ==
  IF list = <<>> THEN <<>>
  ELSE IF Len(list) = 1 THEN <<JStr(list[1])>>
  ELSE <<JStr(list[1]), [t |-> ","]>> \o JSONItems(Tail(list))

\* JSON.stringify of a list of strings
JSONStringify(list) == <<[t |-> "["]>> \o JSONItems(list) \o <<[t |-> "]"]>>

\* the tokens between the brackets are  str (, str)*
RECURSIVE JSONWellFormedItems(_)
JSONWellFormedItems(toks) ==
  /\ toks # <<>>
  /\ toks[1].t = "str"
  /\ \/ Len(toks) = 1
     \/ /\ Len(toks) >= 3
        /\ toks[2].t = ","
        /\ JSONWellFormedItems(SubSeq(toks, 3, Len(toks)))

RECURSIVE JSONStrings(_)
JSONStrings(toks) ==
  IF toks = <<>> THEN <<>>
  ELSE IF toks[1].t = "str" THEN <<toks[1].s>> \o JSONStrings(Tail(toks))
  ELSE JSONStrings(Tail(toks))

\* JSON.parse: [ok |-> FALSE] when it throws, else the value and its kind
JSONParse(text) ==
  LET n == Len(text)
      inner == SubSeq(text, 2, n - 1)
  IN IF n = 1 /\ text[1].t = "str"
     THEN [ok |-> TRUE, kind |-> "string", val |-> text[1].s]
     ELSE IF n >= 2 /\ text[1].t = "[" /\ text[n].t = "]"
             /\ (inner = <<>> \/ JSONWellFormedItems(inner))
     THEN [ok |-> TRUE, kind |-> "array", val |-> JSONStrings(inner)]
     ELSE [ok |-> FALSE]

\* a raw list-typed field: a string (its JSON text) or a native array
RawString(text) == [type |-> "string", text |-> text]
RawArray(items) == [type |-> "array", items |-> items]

\* fields[k1] || fields[k2] for a list-typed field
EitherRaw(f, k1, k2) ==
  LET truthy(k) == Has(f, k) /\ (f[k].type = "string" => f[k].text # <<>>)
  IN IF truthy(k1) THEN [v |-> f[k1]]
     ELSE IF truthy(k2) THEN [v |-> f[k2]]
     ELSE EmptyObj

(* ----------------------------- scholarships ---------------------------- *)
UntitledScholarship == "Untitled Scholarship"
UnknownOrganization == "Unknown Organization"

\* the try block of mapToScholarship for one list-typed field: the object
\* [v |-> list], or EmptyObj for undefined
ParseListField(f, k1, k2) ==
  LET raw == EitherRaw(f, k1, k2)
  IN IF raw = EmptyObj THEN EmptyObj
     ELSE IF raw.v.type = "string"
     THEN IF JSONParse(raw.v.text).ok THEN [v |-> JSONParse(raw.v.text).val]
          ELSE [threw |-> TRUE]
     ELSE [v |-> raw.v.items]

mapToScholarship(record, now) ==
  LET f == record.fields
      str(k1, k2, dflt) ==
        IF Either(f, k1, k2) = EmptyObj THEN dflt ELSE Either(f, k1, k2).v
      opt(k1, k2, to) ==
        IF Either(f, k1, k2) = EmptyObj THEN EmptyObj
        ELSE (to :> Either(f, k1, k2).v)
      list(k1, k2, to) ==
        IF Has(ParseListField(f, k1, k2), "v")
        THEN (to :> ParseListField(f, k1, k2).v) ELSE EmptyObj
      tags == ParseListField(f, "tags", "Tags")
  IN SpreadAll(<<
       [id |-> record.id,
        title |-> str("Title", "title", UntitledScholarship),
        organization |-> str("Organization", "organization", UnknownOrganization),
        amount |-> str("Amount", "amount", "Amount TBD"),
        deadline |-> str("Deadline", "deadline", "No deadline specified"),
        description |-> str("Description", "description", "No description available"),
        requirements |-> str("Requirements", "requirements", "Check with scholarship provider"),
        tags |-> IF Has(tags, "v") THEN tags.v ELSE <<>>,
        type |-> str("Type", "type", "merit-based"),
        isActive |-> ~(Has(f, "isActive") /\ f.isActive = FALSE),
        createdAt |-> IF Has(f, "CreatedAt") THEN f.CreatedAt
                      ELSE IF Has(f, "createdAt") THEN f.createdAt ELSE now],
       opt("EligibilityGpa", "eligibilityGpa", "eligibilityGpa"),
       list("eligibleFields", "EligibleFields", "eligibleFields"),
       list("eligibleLevels", "EligibleLevels", "eligibleLevels"),
       opt("Notes", "notes", "notes"),
       opt("ProfileId", "profileId", "profileId")>>)

FallbackCount == 6

fallbackId(n) == "fallback-" \o ToString(n)

getFallbackScholarships(now) ==
  <<[id |-> fallbackId(1),
     title |-> "National Merit STEM Scholarship",
     organization |-> "Future Scientists Foundation",
     amount |-> "₹12,50,000",
     deadline |-> "2025-03-15",
     description |-> "Supporting outstanding students pursuing STEM degrees with demonstrated academic excellence and research potential.",
     requirements |-> "Minimum 3.7 GPA, STEM major, research experience preferred",
     tags |-> <<"STEM", "Merit-Based", "Undergraduate", "Research">>,
     type |-> "merit-based",
     eligibilityGpa |-> "3.7",
     eligibleFields |-> <<"Computer Science", "Engineering", "Mathematics", "Physics", "Chemistry", "Biology">>,
     eligibleLevels |-> <<"undergraduate">>,
     isActive |-> TRUE,
     createdAt |-> now],
    [id |-> fallbackId(2),
     title |-> "Tech Diversity Excellence Award",
     organization |-> "TechForward Initiative",
     amount |-> "₹7,00,000",
     deadline |-> "2025-04-01",
     description |-> "Promoting diversity in technology fields by supporting underrepresented students with financial aid and mentorship.",
     requirements |-> "Technology-related major, demonstrate financial need, minimum 3.0 GPA",
     tags |-> <<"Technology", "Diversity", "Need-Based", "Mentorship">>,
     type |-> "need-based",
     eligibilityGpa |-> "3.0",
     eligibleFields |-> <<"Computer Science", "Information Technology", "Software Engineering", "AIML">>,
     eligibleLevels |-> <<"undergraduate", "graduate">>,
     isActive |-> TRUE,
     createdAt |-> now],
    [id |-> fallbackId(3),
     title |-> "Community Leadership Grant",
     organization |-> "Local Community Foundation",
     amount |-> "₹2,50,000",
     deadline |-> "2025-05-15",
     description |-> "Recognizing students who demonstrate exceptional leadership and community service commitment.",
     requirements |-> "Minimum 100 hours community service, leadership role in organization, any major, 3.2+ GPA",
     tags |-> <<"Leadership", "Community Service", "Local">>,
     type |-> "merit-based",
     eligibilityGpa |-> "3.2",
     eligibleFields |-> <<>>,
     eligibleLevels |-> <<"undergraduate">>,
     isActive |-> TRUE,
     createdAt |-> now],
    [id |-> fallbackId(4),
     title |-> "Environmental Innovation Award",
     organization |-> "Green Future Initiative",
     amount |-> "₹10,00,000",
     deadline |-> "2025-06-30",
     description |-> "Supporting students developing innovative solutions for environmental challenges and sustainability.",
     requirements |-> "Environmental science or related field, research project focused on sustainability, minimum 3.5 GPA",
     tags |-> <<"Environmental Science", "Innovation", "Research-Based", "Sustainability">>,
     type |-> "merit-based",
     eligibilityGpa |-> "3.5",
     eligibleFields |-> <<"Environmental Science", "Environmental Engineering", "Renewable Energy", "Biology">>,
     eligibleLevels |-> <<"undergraduate", "graduate">>,
     isActive |-> TRUE,
     createdAt |-> now],
    [id |-> fallbackId(5),
     title |-> "First Generation College Student Support",
     organization |-> "Educational Equity Foundation",
     amount |-> "₹4,00,000",
     deadline |-> "2025-04-30",
     description |-> "Supporting first-generation college students with financial aid and academic support services.",
     requirements |-> "First-generation college student status, demonstrate financial need, minimum 2.8 GPA",
     tags |-> <<"First-Generation", "Need-Based", "Academic Support">>,
     type |-> "need-based",
     eligibilityGpa |-> "2.8",
     eligibleFields |-> <<>>,
     eligibleLevels |-> <<"undergraduate">>,
     isActive |-> TRUE,
     createdAt |-> now],
    [id |-> fallbackId(6),
     title |-> "Women in Engineering Scholarship",
     organization |-> "Society of Women Engineers",
     amount |-> "₹8,00,000",
     deadline |-> "2025-05-01",
     description |-> "Empowering women pursuing engineering degrees with financial support and networking opportunities.",
     requirements |-> "Female students in engineering programs, minimum 3.3 GPA",
     tags |-> <<"Women", "Engineering", "STEM", "Diversity">>,
     type |-> "merit-based",
     eligibilityGpa |-> "3.3",
     eligibleFields |-> <<"Engineering", "Computer Science", "Electronics", "Mechanical Engineering">>,
     eligibleLevels |-> <<"undergraduate", "graduate">>,
     isActive |-> TRUE,
     createdAt |-> now]>>

\* array.map(f)
MapSeq(f(_), xs) == [i \in 1..Len(xs) |-> f(xs[i])]

\* array.find(s => s.id === id): [v |-> element] or EmptyObj
FindById(xs, id) ==
  LET hits == {i \in 1..Len(xs) : xs[i].id = id}
  IN IF hits = {} THEN EmptyObj
     ELSE [v |-> xs[CHOOSE i \in hits : \A j \in hits : i <= j]]

\* firstRecord.fields.Title || .title || .Organization || .organization
\* the first-record test under the capitalized convention only
hasProperDataCapitalized(firstRecord) ==
  TruthyStr(firstRecord.fields, "Title") \/ TruthyStr(firstRecord.fields, "Organization")

hasProperData(firstRecord) ==
  \/ Either(firstRecord.fields, "Title", "title") # EmptyObj
  \/ Either(firstRecord.fields, "Organization", "organization") # EmptyObj

hasValidData(scholarships) ==
  \E i \in 1..Len(scholarships) :
     /\ scholarships[i].title # UntitledScholarship
     /\ scholarships[i].organization # UnknownOrganization

\* getAllScholarships with a catch block that returns no scholarships
getAllScholarshipsEmptyOnError(t, k) ==
  LET fallback == getFallbackScholarships(clock)
      records == tblScholarships
      scholarships == [i \in 1..Len(records) |-> mapToScholarship(records[i], clock)]
  IN IF ~useAirtable THEN fallback
     ELSE IF Throws(t, k) THEN <<>>
     ELSE IF Len(records) > 0 /\ ~hasProperData(records[1]) THEN fallback
     ELSE IF ~hasValidData(scholarships) /\ Len(scholarships) > 0 THEN fallback
     ELSE IF Len(scholarships) > 0 THEN scholarships ELSE fallback

\* getAllScholarships, its select().all() being call k
getAllScholarships(t, k) ==
  LET fallback == getFallbackScholarships(clock)
      records == tblScholarships
      scholarships == [i \in 1..Len(records) |-> mapToScholarship(records[i], clock)]
  IN IF ~useAirtable THEN fallback
     ELSE IF Throws(t, k) THEN fallback
     ELSE IF Len(records) > 0 /\ ~hasProperData(records[1]) THEN fallback
     ELSE IF ~hasValidData(scholarships) /\ Len(scholarships) > 0 THEN fallback
     ELSE IF Len(scholarships) > 0 THEN scholarships ELSE fallback

\* id.startsWith("fallback-"), over the ids of the model
MaxFallbackProbe == 7

StartsWithFallback(id) == \E n \in 1..MaxFallbackProbe : id = fallbackId(n)

\* getScholarshipById, its find being call k: [v |-> scholarship] or EmptyObj
getScholarshipById(id, t, k) ==
  LET fallback == getFallbackScholarships(clock)
      found == FindRecord(tblScholarships, id)
  IN IF StartsWithFallback(id) THEN FindById(fallback, id)
     ELSE IF ~useAirtable THEN FindById(fallback, id)
     ELSE IF Throws(t, k) THEN FindById(fallback, id)
     ELSE IF found = EmptyObj THEN EmptyObj
     ELSE IF mapToScholarship(found.rec, clock).title = UntitledScholarship
     THEN [v |-> fallback[1]]
     ELSE [v |-> mapToScholarship(found.rec, clock)]

\* the fields createScholarship writes to the backend
CreateScholarshipFields(scholarship, now) ==
  [Title |-> scholarship.title,
   Organization |-> scholarship.organization,
   Amount |-> scholarship.amount,
   Deadline |-> scholarship.deadline,
   Description |-> scholarship.description,
   Requirements |-> scholarship.requirements,
   Tags |-> RawString(JSONStringify(scholarship.tags)),
   Type |-> scholarship.type,
   EligibilityGpa |-> OrElse(scholarship, "eligibilityGpa", ""),
   EligibleFields |-> RawString(JSONStringify(
       IF Has(scholarship, "eligibleFields") THEN scholarship.eligibleFields ELSE <<>>)),
   EligibleLevels |-> RawString(JSONStringify(
       IF Has(scholarship, "eligibleLevels") THEN scholarship.eligibleLevels ELSE <<>>)),
   CreatedAt |-> now]

\* { id, ...scholarship, createdAt: now }
LocalScholarship(id, scholarship, now) ==
  Spread(Spread([id |-> id], scholarship), [createdAt |-> now])

batchSize == 10

\* number of destroy calls clearAllScholarships needs for n records
BatchCount(n) == (n + batchSize - 1) \div batchSize

\* a slice that always starts at the first id
BatchFromStart(recordIds, j) ==
  SubSeq(recordIds, 1, IF batchSize < Len(recordIds) THEN batchSize ELSE Len(recordIds))

\* recordIds.slice(i, i + batchSize) for the j-th batch
Batch(recordIds, j) ==
  SubSeq(recordIds, (j - 1) * batchSize + 1,
         IF j * batchSize < Len(recordIds) THEN j * batchSize ELSE Len(recordIds))

\* a clear that carries on past a destroy that throws
BatchesDoneIgnoringErrors(n, t) == BatchCount(n)

\* the destroy calls that complete: call 1 is the select, call 1 + j batch j
BatchesDone(n, t) ==
  LET failing == {j \in 1..BatchCount(n) : Throws(t, 1 + j)}
  IN IF failing = {} THEN BatchCount(n)
     ELSE (CHOOSE j \in failing : \A i \in failing : j <= i) - 1

\* destroy that deletes only the first id of the batch
DestroyFirstOnly(tbl, ids) ==
  SelectSeq(tbl, LAMBDA r : ids = <<>> \/ ids[1] # r.id)

\* base(table).destroy(ids)
DestroyRecords(tbl, ids) ==
  SelectSeq(tbl, LAMBDA r : \A i \in 1..Len(ids) : ids[i] # r.id)

(* ------------------------------- matches ------------------------------- *)
\* { id, ...match, createdAt: now }
NewMatch(id, match, now) ==
  Spread(Spread([id |-> id], match), [createdAt |-> now])

\* the fields createScholarshipMatch writes to the backend
CreateMatchFields(id, match, now) ==
  Spread([id |-> id,
          ProfileID |-> match.profileId,
          ScholarshipID |-> match.scholarshipId,
          MatchScore |-> match.matchScore,
          Status |-> OrElse(match, "status", "new"),
          CreatedAt |-> now],
         IF Has(match, "aiReasoning") THEN [AIReasoning |-> match.aiReasoning]
         ELSE EmptyObj)

mapToScholarshipMatch(record) ==
  Spread([id |-> record.id],
         Pick(record.fields, {"profileId", "scholarshipId", "matchScore",
                              "aiReasoning", "status", "createdAt"}))

\* a create that caches the new match after the matches this request has
\* been returned so far, not after the list the cache holds
createScholarshipMatchFromOwn(st, match, t, k, now) ==
  LET id == uuid(st.uuid + 1)
      newMatch == NewMatch(id, match, now)
      cache == MapSet(st.cache, match.profileId, Append(st.out, newMatch))
      record == [id |-> recordId(st.rec + 1),
                 fields |-> CreateMatchFields(id, match, now)]
  IN IF ~useAirtable \/ Throws(t, k)
     THEN [cache |-> cache, tbl |-> st.tbl, uuid |-> st.uuid + 1, rec |-> st.rec,
           out |-> Append(st.out, newMatch)]
     ELSE [cache |-> cache, tbl |-> Append(st.tbl, record), uuid |-> st.uuid + 1,
           rec |-> st.rec + 1, out |-> Append(st.out, mapToScholarshipMatch(record))]

\* One call of createScholarshipMatch, its backend create being call k.
\* st = [cache, tbl, uuid, rec, out]: matchStorage, the matches table, the two
\* id counters and the entities returned so far.
createScholarshipMatch(st, match, t, k, now) ==
  LET id == uuid(st.uuid + 1)
      newMatch == NewMatch(id, match, now)
      cache == MapSet(st.cache, match.profileId,
                      Append(MapGetList(st.cache, match.profileId), newMatch))
      record == [id |-> recordId(st.rec + 1),
                 fields |-> CreateMatchFields(id, match, now)]
  IN IF ~useAirtable \/ Throws(t, k)
     THEN [cache |-> cache, tbl |-> st.tbl, uuid |-> st.uuid + 1, rec |-> st.rec,
           out |-> Append(st.out, newMatch)]
     ELSE [cache |-> cache, tbl |-> Append(st.tbl, record), uuid |-> st.uuid + 1,
           rec |-> st.rec + 1, out |-> Append(st.out, mapToScholarshipMatch(record))]

\* Math.random() is draw / RandomResolution, 0 <= draw < RandomResolution
RandomResolution == 1000

ScoreSpan == 40

ScoreBase == 60

\* Math.floor(Math.random() * 40) + 60
RandomScore(draw) == ((draw * ScoreSpan) \div RandomResolution) + ScoreBase

\* the i-th Math.random() of a request whose draws cycle through `stream`
Draw(stream, i) == stream[((i - 1) % Len(stream)) + 1]

\* a generate loop that skips a scholarship the profile is already matched to
RECURSIVE GenerateLoopDeduplicating(_, _, _, _, _, _, _)
GenerateLoopDeduplicating(st, scholarships, i, profileId, stream, t, now) ==
  LET stored == MapGetList(st.cache, profileId)
  IN IF i > Len(scholarships) THEN st
     ELSE IF \E j \in 1..Len(stored) : stored[j].scholarshipId = scholarships[i].id
     THEN GenerateLoopDeduplicating(st, scholarships, i + 1, profileId, stream, t, now)
     ELSE GenerateLoopDeduplicating(
            createScholarshipMatch(st,
              [profileId |-> profileId,
               scholarshipId |-> scholarships[i].id,
               matchScore |-> RandomScore(Draw(stream, i)),
               status |-> "new",
               aiReasoning |-> "Pre-stored scholarship. AI matching will be enabled soon."],
              t, 2 + i, now),
            scholarships, i + 1, profileId, stream, t, now)

\* the loop of POST /api/matches/generate over scholarships[i..]; the create
\* for scholarships[i] is call 2 + i
RECURSIVE GenerateLoop(_, _, _, _, _, _, _)
GenerateLoop(st, scholarships, i, profileId, stream, t, now) ==
  IF i > Len(scholarships) THEN st
  ELSE GenerateLoop(
         createScholarshipMatch(st,
           [profileId |-> profileId,
            scholarshipId |-> scholarships[i].id,
            matchScore |-> RandomScore(Draw(stream, i)),
            status |-> "new",
            aiReasoning |-> "Pre-stored scholarship. AI matching will be enabled soon."],
           t, 2 + i, now),
         scholarships, i + 1, profileId, stream, t, now)

\* results.sort((a, b) => b.matchScore - a.matchScore): stable, descending
RECURSIVE InsertByScore(_, _)
InsertByScore(sorted, x) ==
  IF sorted = <<>> THEN <<x>>
  ELSE IF sorted[1].matchScore >= x.matchScore
  THEN <<sorted[1]>> \o InsertByScore(Tail(sorted), x)
  ELSE <<x>> \o sorted

RECURSIVE SortByScore(_)
SortByScore(xs) ==
  IF xs = <<>> THEN <<>>
  ELSE InsertByScore(SortByScore(SubSeq(xs, 1, Len(xs) - 1)), xs[Len(xs)])

\* the cached matches without the status filter
NoStatusFilter(matches) == matches

\* storedMatches.filter(m => m.status === 'new')
NewOnly(matches) ==
  SelectSeq(matches, LAMBDA m : Has(m, "status") /\ m.status = "new")

\* the loop of getScholarshipMatches over cached matches[i..]; the lookup of
\* matches[i] is call i
RECURSIVE JoinCached(_, _, _)
JoinCached(matches, i, t) ==
  IF i > Len(matches) THEN <<>>
  ELSE LET scholarship == getScholarshipById(matches[i].scholarshipId, t, i)
       IN (IF Has(scholarship, "v")
           THEN <<Spread(matches[i], [scholarship |-> scholarship.v])>>
           ELSE <<>>)
          \o JoinCached(matches, i + 1, t)

\* filterByFormula AND({ProfileID} = profileId, {Status} = "new")
SelectMatches(tbl, profileId) ==
  SelectSeq(tbl, LAMBDA r : /\ Has(r.fields, "ProfileID")
                            /\ r.fields.ProfileID = profileId
                            /\ Has(r.fields, "Status")
                            /\ r.fields.Status = "new")

\* the loop over backend matches[i..]; call 1 is the select, the lookup of
\* matches[i] is call 1 + i.  match.fields.scholarshipId undefined makes
\* getScholarshipById throw (id.startsWith): [threw |-> TRUE]
RECURSIVE JoinBackend(_, _, _)
JoinBackend(matches, i, t) ==
  IF i > Len(matches) THEN [list |-> <<>>]
  ELSE IF ~Has(matches[i].fields, "scholarshipId") THEN [threw |-> TRUE]
  ELSE LET scholarship == getScholarshipById(matches[i].fields.scholarshipId, t, 1 + i)
           rest == JoinBackend(matches, i + 1, t)
       IN IF Has(rest, "threw") THEN rest
          ELSE [list |->
                 (IF scholarship = EmptyObj THEN <<>>
                  ELSE <<Spread(mapToScholarshipMatch(matches[i]),
                                [scholarship |-> scholarship.v])>>)
                 \o rest.list]

\* getScholarshipMatches: [list, source]
getScholarshipMatches(profileId, t) ==
  LET storedMatches == MapGetList(matchStorage, profileId)
      joined == JoinBackend(SelectMatches(tblMatches, profileId), 1, t)
  IN IF Len(storedMatches) > 0
     THEN [list |-> SortByScore(JoinCached(NewOnly(storedMatches), 1, t)),
           source |-> "cache"]
     ELSE IF ~useAirtable THEN [list |-> <<>>, source |-> "none"]
     ELSE IF Throws(t, 1) \/ Has(joined, "threw")
     THEN [list |-> <<>>, source |-> "backend"]
     ELSE [list |-> SortByScore(joined.list), source |-> "backend"]

(* ----------------------------- applications ---------------------------- *)
\* A document name is a sequence of characters.
\* String.prototype.toLowerCase, over the letters of the model
LowerChar(c) ==
  CASE c = "P" -> "p"
    [] c = "D" -> "d"
    [] c = "F" -> "f"
    [] OTHER -> c

\* the name compared as it was sent
KeepCase(str) == str

toLowerCase(str) == [i \in 1..Len(str) |-> LowerChar(str[i])]

endsWith(str, suffix) ==
  /\ Len(str) >= Len(suffix)
  /\ SubSeq(str, Len(str) - Len(suffix) + 1, Len(str)) = suffix

DotPdf == <<".", "p", "d", "f">>

\* doc => !doc.toLowerCase().endsWith('.pdf')
IsInvalidDoc(doc) == ~endsWith(toLowerCase(doc), DotPdf)

\* documents.filter(...)
invalidDocs(documents) == SelectSeq(documents, IsInvalidDoc)

\* the entity createScholarshipApplication builds
NewApplication(id, application, now) ==
  [id |-> id,
   studentProfileId |-> application.studentProfileId,
   scholarshipId |-> application.scholarshipId,
   documents |-> application.documents,
   status |-> OrElse(application, "status", "pending"),
   appliedAt |-> now]

(* ------------------------------ guidance ------------------------------- *)
GuidanceKeys == {"profileId", "scholarshipId", "essayTips", "checklist",
                 "improvementSuggestions"}

\* the fields createApplicationGuidance writes to the backend
CreateGuidanceFields(id, guidance, now) ==
  Spread(Spread([id |-> id], Pick(guidance, GuidanceKeys)), [createdAt |-> now])

mapToApplicationGuidance(record) ==
  LET f == record.fields
      opt(k1, k2, to) ==
        IF Either(f, k1, k2) = EmptyObj THEN EmptyObj
        ELSE (to :> Either(f, k1, k2).v)
  IN SpreadAll(<<[id |-> record.id],
                 opt("ProfileId", "profileId", "profileId"),
                 opt("ScholarshipId", "scholarshipId", "scholarshipId"),
                 opt("EssayTips", "essayTips", "essayTips"),
                 opt("Checklist", "checklist", "checklist"),
                 opt("ImprovementSuggestions", "improvementSuggestions",
                     "improvementSuggestions"),
                 IF Has(f, "CreatedAt") THEN [createdAt |-> f.CreatedAt]
                 ELSE IF Has(f, "createdAt") THEN [createdAt |-> f.createdAt]
                 ELSE EmptyObj>>)

(* --------------------------- inputs and Init --------------------------- *)
Ana == [name |-> "Ana", email |-> "ana@example.org", location |-> "Pune",
        gpa |-> "3.8", skills |-> <<"go", "sql">>]

Bo == [name |-> "Bo", email |-> "bo@example.org", location |-> "Goa",
       phone |-> "555", summary |-> "Student"]

\* bodies of POST /api/profile; the last fails name: z.string().min(1)
ProfileBodies == {Ana, Bo, [name |-> "", email |-> "bo@example.org", location |-> "Goa"]}

\* bodies of PUT /api/profile/:id; the last fails email: z.string().email()
UpdateBodies == {[phone |-> "999"], [name |-> "Bea", gpa |-> "3.1"], [email |-> "nope"]}

\* seedSampleData: "Google Computer Science Scholarship"
Google ==
  [title |-> "Google Computer Science Scholarship",
   organization |-> "Google Inc.",
   amount |-> "₹8,25,000",
   deadline |-> "2025-03-15",
   description |-> "Supporting underrepresented students in computer science.",
   requirements |-> "3.5+ GPA, leadership, passion for CS",
   tags |-> <<"technology", "computer-science", "diversity">>,
   type |-> "merit-based",
   eligibilityGpa |-> "3.5",
   eligibleFields |-> <<"Computer Science", "Software Engineering">>,
   eligibleLevels |-> <<"undergraduate-sophomore", "undergraduate-junior">>,
   isActive |-> TRUE]

\* seedSampleData: "First Generation Scholarship" (no eligible fields or levels)
FirstGen ==
  [title |-> "First Generation Scholarship",
   organization |-> "Educational Foundation",
   amount |-> "₹6,60,000",
   deadline |-> "2025-07-01",
   description |-> "Supporting first-generation college students.",
   requirements |-> "First-gen status, financial need",
   tags |-> <<"first-generation", "financial-need">>,
   type |-> "need-based",
   eligibilityGpa |-> "2.8",
   isActive |-> TRUE]

ScholarshipInputs == {Google, FirstGen, [Google EXCEPT !.isActive = FALSE]}

\* what an earlier run of the process left in the backend
PriorProfile == [id |-> "recP", fields |-> CreateProfileFields(Ana, 0)]

PriorMatch ==
  [id |-> "recM",
   fields |-> CreateMatchFields("uuid-0",
                [profileId |-> "recP", scholarshipId |-> fallbackId(1),
                 matchScore |-> 75, status |-> "new"], 0)]

PriorGoogle == [id |-> "recS1", fields |-> CreateScholarshipFields(Google, 0)]

\* a resume record the webhook wrote into the scholarships table
PriorResume == [id |-> "recS0", fields |-> [Notes |-> "resume text", ProfileId |-> "recP"]]

PriorLowercase ==
  [id |-> "recS2", fields |-> [title |-> "Lowercase Grant", organization |-> "Old Org"]]

PriorTitleOnly == [id |-> "recS3", fields |-> [Title |-> "Only Title"]]

\* more records than two destroy batches take
PriorBulk ==
  [i \in 1..(2 * batchSize + 1) |->
     [id |-> "recB" \o ToString(i), fields |-> CreateScholarshipFields(Google, 0)]]

PriorCatalogs ==
  {<<>>, <<PriorGoogle>>, <<PriorResume, PriorGoogle>>, <<PriorLowercase, PriorResume>>,
   <<PriorTitleOnly>>}

\* the backend calls of one operation that may throw
MaxCalls == FallbackCount + MaxOps + 2

Init ==
  /\ useAirtable \in BOOLEAN
  /\ profileStorage = EmptyObj
  /\ matchStorage = EmptyObj
  /\ applicationStorage = EmptyObj
  /\ tblProfiles \in (IF useAirtable THEN {<<>>, <<PriorProfile>>} ELSE {<<>>})
  /\ tblScholarships \in (IF useAirtable THEN PriorCatalogs ELSE {<<>>})
  /\ tblMatches \in (IF useAirtable THEN {<<>>, <<PriorMatch>>} ELSE {<<>>})
  /\ tblGuidance = <<>>
  /\ uuidCount = 0
  /\ recCount = 0
  /\ clock = 1
  /\ res = [op |-> "init"]
  /\ cleared = [done |-> FALSE, held |-> 0]
  /\ calls = EmptyObj
  /\ payment = [location |-> [path |-> "/"]]

\* outcome of the backend call k of an operation, for the record in res
BackendOutcome(t, k) ==
  IF ~useAirtable THEN "none" ELSE IF Throws(t, k) THEN "threw" ELSE "ok"

TableIds(tbl) == {tbl[i].id : i \in 1..Len(tbl)}

\* profile ids a request may carry
RequestProfileIds == DOMAIN profileStorage \cup TableIds(tblProfiles) \cup {"ghost"}

\* an operation that runs from start to end with no other in flight
Tick ==
  /\ clock <= MaxOps
  /\ clock' = clock + 1
  /\ UNCHANGED <<calls, payment>>

(* ---------------------------- profile actions -------------------------- *)
\* the profile a reader of id would be given: the cached entity, else the
\* backend record
ProfileView(id) ==
  IF id \in DOMAIN profileStorage THEN [v |-> profileStorage[id]]
  ELSE IF useAirtable /\ FindRecord(tblProfiles, id) # EmptyObj
  THEN [v |-> mapToStudentProfile(FindRecord(tblProfiles, id).rec, clock)]
  ELSE EmptyObj

\* POST /api/profile -> createStudentProfile; call 1 is the backend create
PostProfile(body, t) ==
  LET viaBackend == useAirtable /\ ~Throws(t, 1)
      id == IF viaBackend THEN recordId(recCount + 1) ELSE uuid(uuidCount + 1)
      profile == ProfileParsed(body)
      result == NewProfile(id, profile, clock)
  IN /\ Tick
     /\ IF ProfileParses(body, FALSE)
        THEN /\ profileStorage' = MapSet(profileStorage, id, result)
             /\ tblProfiles' =
                  IF viaBackend
                  THEN Append(tblProfiles,
                              [id |-> id, fields |-> CreateProfileFields(profile, clock)])
                  ELSE tblProfiles
             /\ recCount' = IF viaBackend THEN recCount + 1 ELSE recCount
             /\ uuidCount' = IF viaBackend THEN uuidCount ELSE uuidCount + 1
             /\ res' = [op |-> "createStudentProfile", status |-> 200,
                        store |-> "returned", input |-> profile, value |-> result,
                        backend |-> BackendOutcome(t, 1)]
        ELSE /\ UNCHANGED <<profileStorage, tblProfiles, recCount, uuidCount>>
             /\ res' = [op |-> "createStudentProfile", status |-> 400,
                        store |-> "notCalled"]
     /\ UNCHANGED <<useAirtable, matchStorage, applicationStorage, tblScholarships,
                    tblMatches, tblGuidance, cleared>>

\* PUT /api/profile/:id -> updateStudentProfile; call 1 is the backend update
PutProfile(id, body, t) ==
  LET profile == ProfileParsed(body)
      existing == ExistingProfile(id, clock)
      updated == MergedProfile(existing, profile, clock)
      written == /\ useAirtable
                 /\ ~Throws(t, 1)
                 /\ FindRecord(tblProfiles, id) # EmptyObj
  IN /\ Tick
     /\ IF ProfileParses(body, TRUE)
        THEN /\ profileStorage' = MapSet(profileStorage, id, updated)
             /\ tblProfiles' =
                  IF written
                  THEN UpdateRecord(tblProfiles, id, UpdateProfileFields(profile, clock))
                  ELSE tblProfiles
             /\ res' = [op |-> "updateStudentProfile", status |-> 200,
                        store |-> "returned", id |-> id, input |-> profile,
                        before |-> ProfileView(id), value |-> updated,
                        wasCached |-> id \in DOMAIN profileStorage,
                        backend |-> IF ~useAirtable THEN "none"
                                    ELSE IF written THEN "ok" ELSE "threw"]
        ELSE /\ UNCHANGED <<profileStorage, tblProfiles>>
             /\ res' = [op |-> "updateStudentProfile", status |-> 500,
                        store |-> "notCalled", id |-> id]
     /\ UNCHANGED <<useAirtable, matchStorage, applicationStorage, tblScholarships,
                    tblMatches, tblGuidance, uuidCount, recCount, cleared>>

\* GET /api/profile/:profileId -> getStudentProfileById
GetProfile(id, t) ==
  LET r == getStudentProfileById(id, t)
  IN /\ Tick
     /\ profileStorage' = r.cache
     /\ res' = Spread([op |-> "getStudentProfileById",
                       status |-> IF r.found THEN 200 ELSE 404,
                       store |-> "returned", id |-> id, found |-> r.found,
                       source |-> r.source,
                       backend |-> IF r.source = "cache" THEN "notCalled"
                                   ELSE BackendOutcome(t, 1),
                       held |-> FindRecord(tblProfiles, id) # EmptyObj],
                      IF r.found THEN [value |-> r.profile] ELSE EmptyObj)
     /\ UNCHANGED <<useAirtable, matchStorage, applicationStorage, tables,
                    uuidCount, recCount, cleared>>

(* -------------------------- scholarship actions ------------------------ *)
\* GET /api/scholarships -> getAllScholarships
GetScholarships(t) ==
  /\ Tick
  /\ res' = [op |-> "getAllScholarships", status |-> 200, store |-> "returned",
             value |-> getAllScholarships(t, 1), backend |-> BackendOutcome(t, 1),
             held |-> Len(tblScholarships), afterClear |-> cleared]
  /\ UNCHANGED <<useAirtable, caches, tables, uuidCount, recCount, cleared>>

\* the scholarship ids a caller may ask for: a catalog id, an id with the
\* fallback prefix that is not in the catalog, the backend's ids, an unknown
\* id, and the id the preceding createScholarship returned
RequestScholarshipIds ==
  {fallbackId(2), fallbackId(MaxFallbackProbe), "unknown"}
    \cup TableIds(tblScholarships)
    \cup (IF res.op = "createScholarship" /\ res.store = "returned"
          THEN {res.value.id} ELSE {})

\* getScholarshipById
GetScholarshipById(id, t) ==
  LET r == getScholarshipById(id, t, 1)
      created == IF res.op = "createScholarship" /\ res.store = "returned"
                    /\ res.value.id = id
                 THEN [created |-> res.input] ELSE EmptyObj
  IN /\ Tick
     /\ res' = SpreadAll(<<[op |-> "getScholarshipById", store |-> "returned",
                           id |-> id, found |-> r # EmptyObj,
                           backend |-> BackendOutcome(t, 1)],
                          IF r # EmptyObj THEN [value |-> r.v] ELSE EmptyObj,
                          created>>)
     /\ UNCHANGED <<useAirtable, caches, tables, uuidCount, recCount, cleared>>

\* createScholarship; call 1 is the backend create
CreateScholarship(scholarship, t) ==
  LET id == uuid(uuidCount + 1)
      record == [id |-> recordId(recCount + 1),
                 fields |-> CreateScholarshipFields(scholarship, clock)]
  IN /\ Tick
     /\ uuidCount' = uuidCount + 1
     /\ IF ~useAirtable
        THEN /\ res' = [op |-> "createScholarship", store |-> "returned",
                        input |-> scholarship, backend |-> "none",
                        value |-> LocalScholarship(id, scholarship, clock)]
             /\ UNCHANGED <<tblScholarships, recCount>>
        ELSE IF Throws(t, 1)
        THEN /\ res' = [op |-> "createScholarship", store |-> "threw",
                        input |-> scholarship, backend |-> "threw"]
             /\ UNCHANGED <<tblScholarships, recCount>>
        ELSE /\ tblScholarships' = Append(tblScholarships, record)
             /\ recCount' = recCount + 1
             /\ res' = [op |-> "createScholarship", store |-> "returned",
                        input |-> scholarship, backend |-> "ok",
                        value |-> mapToScholarship(record, clock)]
     /\ cleared' = IF res'.store = "threw" THEN cleared ELSE [done |-> FALSE, held |-> 0]
     /\ UNCHANGED <<useAirtable, caches, tblProfiles, tblMatches, tblGuidance>>

\* the table after the first `done` destroy calls of clearAllScholarships
RECURSIVE DestroyBatches(_, _, _)
DestroyBatches(tbl, recordIds, done) ==
  IF done = 0 THEN tbl
  ELSE DestroyRecords(DestroyBatches(tbl, recordIds, done - 1), Batch(recordIds, done))

\* clearAllScholarships: [threw, tbl, held, destroyCalls]; call 1 is
\* select().all(), call 1 + j the j-th destroy
clearAllScholarships(t) ==
  LET recordIds == [i \in 1..Len(tblScholarships) |-> tblScholarships[i].id]
      n == Len(recordIds)
      done == BatchesDone(n, t)
  IN [threw |-> useAirtable /\ (Throws(t, 1) \/ done < BatchCount(n)),
      tbl |-> IF useAirtable /\ ~Throws(t, 1)
              THEN DestroyBatches(tblScholarships, recordIds, done)
              ELSE tblScholarships,
      held |-> n,
      destroyCalls |-> IF useAirtable /\ ~Throws(t, 1)
                       THEN (IF done < BatchCount(n) THEN done + 1 ELSE done)
                       ELSE 0,
      recordIds |-> IF useAirtable /\ ~Throws(t, 1) THEN recordIds ELSE <<>>,
      batches |-> IF useAirtable /\ ~Throws(t, 1)
                  THEN [j \in 1..(IF done < BatchCount(n) THEN done + 1 ELSE done) |->
                          Batch(recordIds, j)]
                  ELSE <<>>]

ClearAllScholarships(t) ==
  LET c == clearAllScholarships(t)
  IN /\ Tick
     /\ tblScholarships' = c.tbl
     /\ res' = [op |-> "clearAllScholarships",
                store |-> IF c.threw THEN "threw" ELSE "returned",
                held |-> c.held,
                destroyCalls |-> c.destroyCalls,
                recordIds |-> c.recordIds,
                batches |-> c.batches,
                faults |-> t]
     /\ cleared' = [done |-> ~c.threw,
                    held |-> IF useAirtable /\ ~Throws(t, 1) THEN c.held ELSE 0]
     /\ UNCHANGED <<useAirtable, caches, tblProfiles, tblMatches, tblGuidance,
                    uuidCount, recCount>>

\* the seedScholarships literal of POST /api/seed/scholarships
seedScholarships ==
  <<[title |-> "National Merit STEM Scholarship",
     organization |-> "Future Scientists Foundation",
     amount |-> "$15,000",
     deadline |-> "2024-03-15",
     description |-> "Supporting outstanding students pursuing STEM degrees with demonstrated academic excellence and research potential.",
     requirements |-> "Minimum 3.7 GPA, STEM major, research experience preferred, US citizen or permanent resident",
     tags |-> <<"STEM", "Merit-Based", "Undergraduate", "Research">>,
     type |-> "merit-based",
     eligibilityGpa |-> "3.7",
     eligibleFields |-> <<"Computer Science", "Engineering", "Mathematics", "Physics", "Chemistry", "Biology">>,
     eligibleLevels |-> <<"undergraduate">>,
     isActive |-> TRUE],
    [title |-> "Tech Diversity Excellence Award",
     organization |-> "TechForward Initiative",
     amount |-> "$8,500",
     deadline |-> "2024-04-01",
     description |-> "Promoting diversity in technology fields by supporting underrepresented students with financial aid and mentorship.",
     requirements |-> "Technology-related major, demonstrate financial need, underrepresented minority status, minimum 3.0 GPA",
     tags |-> <<"Technology", "Diversity", "Need-Based", "Mentorship">>,
     type |-> "need-based",
     eligibilityGpa |-> "3.0",
     eligibleFields |-> <<"Computer Science", "Information Technology", "Software Engineering">>,
     eligibleLevels |-> <<"undergraduate", "graduate">>,
     isActive |-> TRUE],
    [title |-> "Community Leadership Grant",
     organization |-> "Local Community Foundation",
     amount |-> "$3,000",
     deadline |-> "2024-05-15",
     description |-> "Recognizing students who demonstrate exceptional leadership and community service commitment.",
     requirements |-> "Minimum 100 hours community service, leadership role in organization, any major, 3.2+ GPA",
     tags |-> <<"Leadership", "Community Service", "Local">>,
     type |-> "merit-based",
     eligibilityGpa |-> "3.2",
     eligibleFields |-> <<>>,
     eligibleLevels |-> <<"undergraduate">>,
     isActive |-> TRUE],
    [title |-> "Environmental Innovation Award",
     organization |-> "Green Future Initiative",
     amount |-> "$12,000",
     deadline |-> "2024-06-30",
     description |-> "Supporting students developing innovative solutions for environmental challenges and sustainability.",
     requirements |-> "Environmental science or related field, research project focused on sustainability, minimum 3.5 GPA",
     tags |-> <<"Environmental Science", "Innovation", "Research-Based", "Sustainability">>,
     type |-> "merit-based",
     eligibilityGpa |-> "3.5",
     eligibleFields |-> <<"Environmental Science", "Environmental Engineering", "Renewable Energy", "Biology">>,
     eligibleLevels |-> <<"undergraduate", "graduate">>,
     isActive |-> TRUE],
    [title |-> "First Generation College Student Support",
     organization |-> "Educational Equity Foundation",
     amount |-> "$5,000",
     deadline |-> "2024-04-30",
     description |-> "Supporting first-generation college students with financial aid and academic support services.",
     requirements |-> "First-generation college student status, demonstrate financial need, minimum 2.8 GPA",
     tags |-> <<"First-Generation", "Need-Based", "Academic Support">>,
     type |-> "need-based",
     eligibilityGpa |-> "2.8",
     eligibleFields |-> <<>>,
     eligibleLevels |-> <<"undergraduate">>,
     isActive |-> TRUE]>>

\* the seed loop over seedScholarships[i..]: createScholarship i is backend
\* call k0 + i; st = [tbl, uuid, rec, returned, threw]
RECURSIVE SeedLoop(_, _, _, _, _)
SeedLoop(st, i, k0, t, now) ==
  IF i > Len(seedScholarships) THEN st
  ELSE IF ~useAirtable
  THEN SeedLoop([st EXCEPT !.uuid = @ + 1, !.returned = @ + 1], i + 1, k0, t, now)
  ELSE IF Throws(t, k0 + i)
  THEN [st EXCEPT !.uuid = @ + 1, !.threw = TRUE]
  ELSE SeedLoop([st EXCEPT !.uuid = @ + 1, !.rec = @ + 1, !.returned = @ + 1,
                           !.tbl = Append(@, [id |-> recordId(st.rec + 1),
                                              fields |-> CreateScholarshipFields(
                                                           seedScholarships[i], now)])],
                i + 1, k0, t, now)

\* POST /api/seed/scholarships: clearAllScholarships, then one
\* createScholarship per seed entry; the clear makes calls 1 .. 1 + batches
SeedScholarships(t) ==
  LET c == clearAllScholarships(t)
      k0 == IF useAirtable THEN 1 + BatchCount(c.held) ELSE 0
      st == SeedLoop([tbl |-> c.tbl, uuid |-> uuidCount, rec |-> recCount,
                      returned |-> 0, threw |-> FALSE], 1, k0, t, clock)
  IN /\ Tick
     /\ IF c.threw
        THEN /\ tblScholarships' = c.tbl
             /\ UNCHANGED <<uuidCount, recCount>>
             /\ res' = [op |-> "seedScholarships", status |-> 500,
                        clear |-> "threw", held |-> c.held,
                        destroyCalls |-> c.destroyCalls, createCalls |-> 0,
                        created |-> 0, faults |-> t]
             /\ cleared' = [done |-> FALSE, held |-> 0]
        ELSE /\ tblScholarships' = st.tbl
             /\ uuidCount' = st.uuid
             /\ recCount' = st.rec
             /\ res' = [op |-> "seedScholarships",
                        status |-> IF st.threw THEN 500 ELSE 200,
                        clear |-> "returned", held |-> c.held,
                        destroyCalls |-> c.destroyCalls,
                        createCalls |-> st.uuid - uuidCount,
                        created |-> st.returned, faults |-> t]
             /\ cleared' = [done |-> st.returned = 0,
                            held |-> IF useAirtable THEN c.held ELSE 0]
     /\ UNCHANGED <<useAirtable, caches, tblProfiles, tblMatches, tblGuidance>>

(* ----------------------------- match actions --------------------------- *)
RandomStreams == {<<0, RandomResolution - 1>>, <<RandomResolution \div 2>>}

\* a handler that generates for a profile the store did not find
GenerateStatusNoLookup(profileId, found) ==
  IF profileId = "" THEN 400 ELSE 200

\* the answer of POST /api/matches/generate: 400 without a profile id, 404
\* when the store finds no profile
GenerateStatus(profileId, found) ==
  IF profileId = "" THEN 400
  ELSE IF ~found THEN 404
  ELSE 200

\* POST /api/matches/generate; call 1 is the profile find, call 2 the
\* scholarships select, call 2 + i the create of the i-th match
GenerateMatches(profileId, stream, t) ==
  LET p == getStudentProfileById(profileId, t)
      status == GenerateStatus(profileId, p.found)
      scholarships == getAllScholarships(t, 2)
      st == GenerateLoop([cache |-> matchStorage, tbl |-> tblMatches,
                          uuid |-> uuidCount, rec |-> recCount, out |-> <<>>],
                         scholarships, 1, profileId, stream, t, clock)
  IN /\ Tick
     /\ IF status = 400
        THEN /\ res' = [op |-> "generateMatches", status |-> 400, profileId |-> profileId]
             /\ UNCHANGED <<profileStorage, matchStorage, tblMatches, uuidCount, recCount>>
        ELSE IF status = 404
        THEN /\ res' = [op |-> "generateMatches", status |-> 404, profileId |-> profileId]
             /\ UNCHANGED <<profileStorage, matchStorage, tblMatches, uuidCount, recCount>>
        ELSE /\ profileStorage' = p.cache
             /\ matchStorage' = st.cache
             /\ tblMatches' = st.tbl
             /\ uuidCount' = st.uuid
             /\ recCount' = st.rec
             /\ res' = [op |-> "generateMatches", status |-> 200,
                        profileId |-> profileId,
                        scholarshipIds |-> [i \in 1..Len(scholarships) |-> scholarships[i].id],
                        cachedBefore |-> Len(MapGetList(matchStorage, profileId)),
                        written |-> Len(st.tbl) - Len(tblMatches),
                        matches |-> st.out]
     /\ UNCHANGED <<useAirtable, applicationStorage, tblProfiles, tblScholarships,
                    tblGuidance, cleared>>

\* inputs of a direct createScholarshipMatch
MatchInputs ==
  {[profileId |-> "recP", scholarshipId |-> fallbackId(3), matchScore |-> 88,
    status |-> "applied"],
   [profileId |-> "recP", scholarshipId |-> "recS1", matchScore |-> 97,
    status |-> "new"]}

\* createScholarshipMatch called on its own; call 1 is the backend create
CreateScholarshipMatch(match, t) ==
  LET st == createScholarshipMatch([cache |-> matchStorage, tbl |-> tblMatches,
                                    uuid |-> uuidCount, rec |-> recCount,
                                    out |-> <<>>], match, t, 1, clock)
  IN /\ Tick
     /\ matchStorage' = st.cache
     /\ tblMatches' = st.tbl
     /\ uuidCount' = st.uuid
     /\ recCount' = st.rec
     /\ res' = [op |-> "createScholarshipMatch", store |-> "returned",
                input |-> match, value |-> st.out[1],
                backend |-> BackendOutcome(t, 1)]
     /\ UNCHANGED <<useAirtable, profileStorage, applicationStorage, tblProfiles,
                    tblScholarships, tblGuidance, cleared>>

\* GET /api/matches/:profileId -> getScholarshipMatches
GetMatches(profileId, t) ==
  LET r == getScholarshipMatches(profileId, t)
  IN /\ Tick
     /\ res' = [op |-> "getScholarshipMatches", status |-> 200, store |-> "returned",
                profileId |-> profileId, value |-> r.list, source |-> r.source]
     /\ UNCHANGED <<useAirtable, caches, tables, uuidCount, recCount, cleared>>

\* an update that also writes the status into the cached match
MatchCacheStatusWritten(cache, matchId, status) ==
  [k \in DOMAIN cache |->
     [i \in 1..Len(cache[k]) |->
        IF cache[k][i].id = matchId
        THEN ("status" :> status) @@ cache[k][i]
        ELSE cache[k][i]]]

\* matchStorage after updateMatchStatus, which has no statement that reads
\* or writes it
MatchCacheAfterUpdate(cache, matchId, status) == cache

\* PUT /api/matches/:matchId/status -> updateMatchStatus; call 1 is the
\* backend update, which throws for an id the table does not hold
UpdateMatchStatus(matchId, status, t) ==
  LET threw == useAirtable /\ (Throws(t, 1) \/ FindRecord(tblMatches, matchId) = EmptyObj)
      updated == UpdateRecord(tblMatches, matchId, [status |-> status])
  IN /\ Tick
     /\ IF ~useAirtable
        THEN /\ res' = [op |-> "updateMatchStatus", status |-> 200, store |-> "returned",
                        matchId |-> matchId, backend |-> "none",
                        value |-> [id |-> matchId, profileId |-> "", scholarshipId |-> "",
                                   matchScore |-> 0, status |-> status,
                                   createdAt |-> clock]]
             /\ UNCHANGED tblMatches
        ELSE IF threw
        THEN /\ res' = [op |-> "updateMatchStatus", status |-> 500, store |-> "threw",
                        matchId |-> matchId, backend |-> "threw"]
             /\ UNCHANGED tblMatches
        ELSE /\ tblMatches' = updated
             /\ res' = [op |-> "updateMatchStatus", status |-> 200, store |-> "returned",
                        matchId |-> matchId, backend |-> "ok",
                        value |-> mapToScholarshipMatch(FindRecord(updated, matchId).rec)]
     /\ matchStorage' = MatchCacheAfterUpdate(matchStorage, matchId, status)
     /\ UNCHANGED <<useAirtable, profileStorage, applicationStorage, tblProfiles,
                    tblScholarships, tblGuidance, uuidCount, recCount, cleared>>

(* -------------------------- application actions ------------------------ *)
DocLower == <<"a", ".", "p", "d", "f">>
DocUpper == <<"b", ".", "P", "D", "F">>
DocMixed == <<"c", ".", "P", "d", "f">>
DocText == <<"d", ".", "t", "x", "t">>
DocInner == <<"e", ".", "p", "d", "f", ".", "t", "x", "t">>
DocShort == <<"p", "d", "f">>

DocumentLists ==
  {<<>>, <<DocLower>>, <<DocUpper, DocMixed>>, <<DocLower, DocText>>,
   <<DocText, DocUpper>>, <<DocInner>>, <<DocShort, DocLower>>, <<DocLower, DocLower>>}

\* bodies of POST /api/applications
ApplicationBodies ==
  {[profileId |-> "p1", scholarshipId |-> fallbackId(1), documents |-> d,
    status |-> "draft"] : d \in DocumentLists}
  \cup {[profileId |-> "p2", scholarshipId |-> fallbackId(2), documents |-> <<DocUpper>>],
        [profileId |-> "p1", scholarshipId |-> fallbackId(1)],
        [profileId |-> "", scholarshipId |-> fallbackId(1), documents |-> <<DocLower>>],
        [profileId |-> "p1", scholarshipId |-> "", documents |-> <<DocLower>>]}

\* POST /api/applications -> createScholarshipApplication
PostApplication(body) ==
  LET id == uuid(uuidCount + 1)
      application == [studentProfileId |-> body.profileId,
                      scholarshipId |-> body.scholarshipId,
                      documents |-> body.documents,
                      status |-> "pending"]
      newApplication == NewApplication(id, application, clock)
      status == IF ~TruthyStr(body, "profileId") THEN 400
                ELSE IF ~TruthyStr(body, "scholarshipId") THEN 400
                ELSE IF ~Has(body, "documents") THEN 500
                ELSE IF Len(invalidDocs(body.documents)) > 0 THEN 400
                ELSE 200
  IN /\ Tick
     /\ IF status = 200
        THEN /\ applicationStorage' =
                  MapSet(applicationStorage, body.profileId,
                         Append(MapGetList(applicationStorage, body.profileId),
                                newApplication))
             /\ uuidCount' = uuidCount + 1
             /\ res' = [op |-> "createApplication", status |-> 200,
                        store |-> "returned", body |-> body, value |-> newApplication,
                        before |-> applicationStorage]
        ELSE /\ UNCHANGED <<applicationStorage, uuidCount>>
             /\ res' = [op |-> "createApplication", status |-> status,
                        store |-> "notCalled", body |-> body,
                        before |-> applicationStorage]
     /\ UNCHANGED <<useAirtable, profileStorage, matchStorage, tables, recCount, cleared>>

\* a listing that puts the newest application first
getApplicationsNewestFirst(cache, profileId) ==
  LET list == MapGetList(cache, profileId)
  IN [i \in 1..Len(list) |-> list[Len(list) + 1 - i]]

\* applicationStorage.get(profileId) || []
getApplications(cache, profileId) == MapGetList(cache, profileId)

\* storage.getApplications(profileId)
GetApplications(profileId) ==
  /\ Tick
  /\ res' = [op |-> "getApplications", status |-> 200, store |-> "returned",
             profileId |-> profileId,
             value |-> getApplications(applicationStorage, profileId)]
  /\ UNCHANGED <<useAirtable, caches, tables, uuidCount, recCount, cleared>>

(* ---------------------------- guidance actions ------------------------- *)
GuidanceInputs ==
  {[profileId |-> "recP", scholarshipId |-> fallbackId(1),
    essayTips |-> "Focus on your goals.", checklist |-> "Draft essay"],
   [profileId |-> "ghost", scholarshipId |-> "recS1"]}

\* createApplicationGuidance; call 1 is the backend create
CreateApplicationGuidance(guidance, t) ==
  LET id == uuid(uuidCount + 1)
      record == [id |-> recordId(recCount + 1),
                 fields |-> CreateGuidanceFields(id, guidance, clock)]
  IN /\ Tick
     /\ uuidCount' = uuidCount + 1
     /\ IF ~useAirtable
        THEN /\ res' = [op |-> "createApplicationGuidance", store |-> "returned",
                        input |-> guidance, backend |-> "none",
                        value |-> Spread(Spread([id |-> id], guidance),
                                         [createdAt |-> clock])]
             /\ UNCHANGED <<tblGuidance, recCount>>
        ELSE IF Throws(t, 1)
        THEN /\ res' = [op |-> "createApplicationGuidance", store |-> "threw",
                        input |-> guidance, backend |-> "threw"]
             /\ UNCHANGED <<tblGuidance, recCount>>
        ELSE /\ tblGuidance' = Append(tblGuidance, record)
             /\ recCount' = recCount + 1
             /\ res' = [op |-> "createApplicationGuidance", store |-> "returned",
                        input |-> guidance, backend |-> "ok",
                        value |-> mapToApplicationGuidance(record)]
     /\ UNCHANGED <<useAirtable, caches, tblProfiles, tblScholarships, tblMatches,
                    cleared>>

(* --------------------------- concurrent calls -------------------------- *)
\* Requests the server handles at the same time.  An async function runs
\* without interruption up to an await; another request may run between the
\* await and the code after it.
Requests == {"A", "B"}

\* a step inside a call in flight: `new Date()` is not read again
Resume == UNCHANGED <<clock, payment>>

\* a cache write that merges the payload onto the entity cached at the time
UpdateWriteMerging(cache, c) ==
  MapSet(cache, c.id,
         IF c.id \in DOMAIN cache
         THEN MergedProfile(cache[c.id], c.input, c.now)
         ELSE c.updated)

\* profileStorage.set(id, updated), after the await
UpdateWrite(cache, c) == MapSet(cache, c.id, c.updated)

\* updateStudentProfile up to `await base(...).update`: the read of the
\* cache and the merge.  With no backend there is no await and the call runs
\* to its end.
UpdateBegin(r, id, body) ==
  LET profile == ProfileParsed(body)
      read == IF id \in DOMAIN profileStorage THEN [v |-> profileStorage[id]]
              ELSE EmptyObj
      updated == MergedProfile(ExistingProfile(id, clock), profile, clock)
      c == [op |-> "updateStudentProfile", pc |-> "update", id |-> id,
            input |-> profile, read |-> read, updated |-> updated, now |-> clock]
  IN /\ r \notin DOMAIN calls
     /\ ProfileParses(body, TRUE)
     /\ clock <= MaxOps
     /\ clock' = clock + 1
     /\ IF useAirtable
        THEN /\ calls' = (r :> c) @@ calls
             /\ UNCHANGED <<profileStorage, res>>
        ELSE /\ calls' = (r :> [c EXCEPT !.pc = "done"]) @@ calls
             /\ profileStorage' = UpdateWrite(profileStorage, c)
             /\ res' = [op |-> "updateStudentProfile", status |-> 200,
                        store |-> "returned", id |-> id, input |-> profile,
                        value |-> updated, backend |-> "none", request |-> r,
                        read |-> read, overwritten |-> read]
     /\ UNCHANGED <<useAirtable, matchStorage, applicationStorage, tables,
                    uuidCount, recCount, cleared, payment>>

\* updateStudentProfile after the await: the backend update has succeeded or
\* thrown, the cache is written, the merged entity returned
UpdateResume(r, threw) ==
  /\ r \in DOMAIN calls
  /\ calls[r].op = "updateStudentProfile"
  /\ calls[r].pc = "update"
  /\ LET c == calls[r]
         written == ~threw /\ FindRecord(tblProfiles, c.id) # EmptyObj
     IN /\ tblProfiles' =
             IF written
             THEN UpdateRecord(tblProfiles, c.id, UpdateProfileFields(c.input, c.now))
             ELSE tblProfiles
        /\ profileStorage' = UpdateWrite(profileStorage, c)
        /\ res' = [op |-> "updateStudentProfile", status |-> 200,
                   store |-> "returned", id |-> c.id, input |-> c.input,
                   value |-> c.updated,
                   backend |-> IF written THEN "ok" ELSE "threw",
                   request |-> r, read |-> c.read,
                   overwritten |-> IF c.id \in DOMAIN profileStorage
                                   THEN [v |-> profileStorage[c.id]] ELSE EmptyObj]
        /\ calls' = (r :> [c EXCEPT !.pc = "done"]) @@ calls
  /\ Resume
  /\ UNCHANGED <<useAirtable, matchStorage, applicationStorage, tblScholarships,
                 tblMatches, tblGuidance, uuidCount, recCount, cleared>>

\* the score every concurrent request draws
FixedDraw == RandomResolution \div 2

\* the match the generate loop builds for the i-th scholarship id
LoopMatch(profileId, ids, i) ==
  [profileId |-> profileId,
   scholarshipId |-> ids[i],
   matchScore |-> RandomScore(FixedDraw),
   status |-> "new",
   aiReasoning |-> "Pre-stored scholarship. AI matching will be enabled soon."]

\* createScholarshipMatch from its call to its await: the id, the new match
\* and the cache append; the backend create has not completed.  `own` is the
\* list of matches the request has been returned so far.
CreateMatchCalled(match, own) ==
  createScholarshipMatch([cache |-> matchStorage, tbl |-> tblMatches,
                          uuid |-> uuidCount, rec |-> recCount, out |-> own],
                         match, {1}, 1, clock)

\* createScholarshipMatch from its await to its return: the backend create
\* completes or throws and the entity is returned to the loop
CreateMatchAwaited(c, threw) ==
  createScholarshipMatch([cache |-> matchStorage, tbl |-> tblMatches,
                          uuid |-> c.uuidAt, rec |-> recCount, out |-> c.out],
                         c.match, IF threw THEN {1} ELSE {}, 1, c.now)

\* the call record of a request that enters createScholarshipMatch for ids[i]
EnterCreate(c, ids, i) ==
  LET match == LoopMatch(c.profileId, ids, i)
      called == CreateMatchCalled(match, c.out)
  IN [op |-> "generateMatches", pc |-> "create", profileId |-> c.profileId,
      ids |-> ids, i |-> i, match |-> match, uuidAt |-> uuidCount,
      now |-> clock, out |-> c.out,
      made |-> Append(c.made, called.out[Len(called.out)])]

\* POST /api/matches/generate up to `await storage.getStudentProfileById`
GenerateBegin(r, profileId) ==
  /\ r \notin DOMAIN calls
  /\ clock <= MaxOps
  /\ clock' = clock + 1
  /\ IF GenerateStatus(profileId, TRUE) = 400
     THEN /\ calls' = (r :> [op |-> "generateMatches", pc |-> "done",
                             profileId |-> profileId, status |-> 400,
                             out |-> <<>>, made |-> <<>>]) @@ calls
          /\ res' = [op |-> "generateMatches", status |-> 400,
                     profileId |-> profileId, request |-> r]
     ELSE /\ calls' = (r :> [op |-> "generateMatches", pc |-> "profile",
                             profileId |-> profileId,
                             out |-> <<>>, made |-> <<>>]) @@ calls
          /\ UNCHANGED res
  /\ UNCHANGED <<useAirtable, caches, tables, uuidCount, recCount, cleared, payment>>

\* the profile lookup resolves; a found profile leads to
\* `await storage.getAllScholarships`
GenerateProfile(r) ==
  /\ r \in DOMAIN calls
  /\ calls[r].op = "generateMatches"
  /\ calls[r].pc = "profile"
  /\ LET c == calls[r]
         p == getStudentProfileById(c.profileId, {})
     IN IF GenerateStatus(c.profileId, p.found) = 404
        THEN /\ calls' = (r :> (("pc" :> "done") @@ [status |-> 404] @@ c)) @@ calls
             /\ res' = [op |-> "generateMatches", status |-> 404,
                        profileId |-> c.profileId, request |-> r]
             /\ UNCHANGED profileStorage
        ELSE /\ calls' = (r :> (("pc" :> "scholarships") @@ c)) @@ calls
             /\ profileStorage' = p.cache
             /\ UNCHANGED res
  /\ Resume
  /\ UNCHANGED <<useAirtable, matchStorage, applicationStorage, tables,
                 uuidCount, recCount, cleared>>

\* the scholarships arrive; the loop enters createScholarshipMatch for the
\* first one, which appends to the cache before its await
GenerateScholarships(r) ==
  /\ r \in DOMAIN calls
  /\ calls[r].op = "generateMatches"
  /\ calls[r].pc = "scholarships"
  /\ LET c == calls[r]
         scholarships == getAllScholarships({}, 1)
         ids == [i \in 1..Len(scholarships) |-> scholarships[i].id]
         called == CreateMatchCalled(LoopMatch(c.profileId, ids, 1), c.out)
     IN /\ calls' = (r :> EnterCreate(c, ids, 1)) @@ calls
        /\ matchStorage' = called.cache
        /\ uuidCount' = called.uuid
  /\ Resume
  /\ UNCHANGED <<useAirtable, profileStorage, applicationStorage, tables,
                 recCount, cleared, res>>

\* a createScholarshipMatch returns: its match is pushed, and the loop enters
\* the next create or the handler answers
GenerateCreated(r, threw) ==
  /\ r \in DOMAIN calls
  /\ calls[r].op = "generateMatches"
  /\ calls[r].pc = "create"
  /\ threw => useAirtable
  /\ LET c == calls[r]
         awaited == CreateMatchAwaited(c, threw)
         pushed == ("out" :> awaited.out) @@ c
         called == CreateMatchCalled(LoopMatch(c.profileId, c.ids, c.i + 1), awaited.out)
     IN /\ tblMatches' = awaited.tbl
        /\ recCount' = awaited.rec
        /\ IF c.i < Len(c.ids)
           THEN /\ calls' = (r :> EnterCreate(pushed, c.ids, c.i + 1)) @@ calls
                /\ matchStorage' = called.cache
                /\ uuidCount' = called.uuid
                /\ UNCHANGED res
           ELSE /\ calls' = (r :> (("pc" :> "done") @@ [status |-> 200] @@ pushed)) @@ calls
                /\ res' = [op |-> "generateMatches", status |-> 200,
                           profileId |-> c.profileId, request |-> r,
                           matches |-> awaited.out]
                /\ UNCHANGED <<matchStorage, uuidCount>>
  /\ Resume
  /\ UNCHANGED <<useAirtable, profileStorage, applicationStorage, tblProfiles,
                 tblScholarships, tblGuidance, cleared>>

(* ----------------------------- payment page ---------------------------- *)
\* A text is a sequence of characters; an encoded text a sequence of
\* characters and percent escapes.
DefaultCounselor ==
  <<"D", "r", ".", " ", "P", "r", "i", "y", "a", " ", "S", "h", "a", "r", "m", "a">>

\* encodeURIComponent of one character: letters, digits and - _ . ! ~ * ' ( )
\* stay, the rest is escaped
EncodeChar(c) ==
  IF c = " " THEN "%20"
  ELSE IF c = "&" THEN "%26"
  ELSE IF c = "+" THEN "%2B"
  ELSE IF c = "=" THEN "%3D"
  ELSE c

\* encodeURIComponent
encodeURIComponent(text) == [i \in 1..Len(text) |-> EncodeChar(text[i])]

\* what URLSearchParams gives back for one element of a query value
DecodeChar(c) ==
  IF c = "%20" \/ c = "+" THEN " "
  ELSE IF c = "%26" THEN "&"
  ELSE IF c = "%2B" THEN "+"
  ELSE IF c = "%3D" THEN "="
  ELSE c

\* params.get("counselorName") on the query the redirect wrote
ParamsGet(query) == [i \in 1..Len(query) |-> DecodeChar(query[i])]

\* the counselorName parameters the page is opened with: none, an empty one,
\* one with characters that need escaping
PaymentParams ==
  {EmptyObj, [counselorName |-> <<>>],
   [counselorName |-> <<"A", "&", "B", " ", "C", "+">>]}

\* params.get("counselorName") || "Dr. Priya Sharma"
CounselorName(params) ==
  IF Has(params, "counselorName") /\ params.counselorName # <<>>
  THEN params.counselorName ELSE DefaultCounselor

CardFields == {"name", "cardNumber", "expiryMonth", "expiryYear", "cvv"}

PaymentMethods == {"card", "upi", "netbanking", "wallet"}

EmptyCard ==
  [name |-> "", cardNumber |-> "", expiryMonth |-> "", expiryYear |-> "", cvv |-> ""]

\* times the page is opened in one behaviour
MaxMounts == 2

\* the state of a page that is not on screen: its useState values are gone
Unmounted(p, path, query, event) ==
  [mounted |-> FALSE, inst |-> p.inst, counselorName |-> <<>>,
   paymentMethod |-> "card", cardData |-> EmptyCard, isProcessing |-> FALSE,
   timers |-> p.timers, location |-> [path |-> path, query |-> query],
   last |-> event]

\* a submit button that is never disabled
NeverDisabled(p) == FALSE

\* disabled={isProcessing} on the submit button
SubmitDisabled(p) == p.isProcessing

\* the guard of handlePaymentSubmit that ends in the alert
CardIncomplete(p) ==
  p.paymentMethod = "card" /\ \E f \in CardFields : p.cardData[f] = ""

\* the store has no part in the payment page
StoreIdle ==
  UNCHANGED <<useAirtable, caches, tables, uuidCount, recCount, clock, res,
              cleared, calls>>

\* the page is opened: useState initial values, counselorName from the query
OpenPayment(params) ==
  /\ ~payment.mounted
  /\ payment.inst < MaxMounts
  /\ payment' = [mounted |-> TRUE, inst |-> payment.inst + 1,
                 counselorName |-> CounselorName(params),
                 paymentMethod |-> "card", cardData |-> EmptyCard,
                 isProcessing |-> FALSE, timers |-> payment.timers,
                 location |-> [path |-> "/payment", query |-> <<>>],
                 last |-> [event |-> "open", inst |-> payment.inst + 1]]
  /\ StoreIdle

\* onValueChange={setPaymentMethod} and the onClick of the four method boxes
SetPaymentMethod(m) ==
  /\ payment.mounted
  /\ payment' = [payment EXCEPT !.paymentMethod = m,
                                !.last = [event |-> "select", inst |-> payment.inst]]
  /\ StoreIdle

\* onChange of a card input: setCardData({ ...cardData, [f]: value })
SetCardField(f, v) ==
  /\ payment.mounted
  /\ payment.paymentMethod = "card"
  /\ payment' = [payment EXCEPT !.cardData = (f :> v) @@ payment.cardData,
                                !.last = [event |-> "type", inst |-> payment.inst]]
  /\ StoreIdle

\* the form is submitted, which a disabled submit button prevents:
\* handlePaymentSubmit
Submit ==
  /\ payment.mounted
  /\ ~SubmitDisabled(payment)
  /\ IF CardIncomplete(payment)
     THEN payment' = [payment EXCEPT !.last = [event |-> "alert", inst |-> payment.inst]]
     ELSE payment' =
            [payment EXCEPT
               !.isProcessing = TRUE,
               !.timers = Append(payment.timers,
                                 [inst |-> payment.inst, name |-> payment.counselorName]),
               !.last = [event |-> "processing", inst |-> payment.inst]]
  /\ StoreIdle

\* the setTimeout callback of the oldest pending submit: setIsProcessing(false)
\* and setLocation to the success page, which takes the payment page off
\* screen
TimerFires ==
  /\ payment.timers # <<>>
  /\ LET timer == Head(payment.timers)
     IN payment' =
          Unmounted([payment EXCEPT !.timers = Tail(payment.timers)],
                    "/payment-success", encodeURIComponent(timer.name),
                    [event |-> "redirect", inst |-> timer.inst])
  /\ StoreIdle

\* the back button: setLocation("/guidance"); a pending timer is not cleared
Back ==
  /\ payment.mounted
  /\ payment' = Unmounted(payment, "/guidance", <<>>,
                          [event |-> "back", inst |-> payment.inst])
  /\ StoreIdle

(* ------------------------------ behaviours ----------------------------- *)
\* fault patterns of an operation that makes one backend call
OneCall == {{}, {1}}

\* profiles: create, update, look up
InitProfiles == Init /\ tblScholarships = <<>> /\ tblMatches = <<>>

NextProfiles ==
  \/ \E body \in ProfileBodies, t \in OneCall : PostProfile(body, t)
  \/ \E id \in RequestProfileIds, body \in UpdateBodies, t \in OneCall :
       PutProfile(id, body, t)
  \/ \E id \in RequestProfileIds, t \in OneCall : GetProfile(id, t)

SpecProfiles == InitProfiles /\ [][NextProfiles]_vars

\* scholarships: list, look up, create, clear
InitScholarships == Init /\ tblProfiles = <<>> /\ tblMatches = <<>>

NextScholarships ==
  \/ \E t \in OneCall : GetScholarships(t)
  \/ \E id \in RequestScholarshipIds, t \in OneCall : GetScholarshipById(id, t)
  \/ \E s \in ScholarshipInputs, t \in OneCall : CreateScholarship(s, t)
  \/ \E t \in {{}, {1}, {2}} : ClearAllScholarships(t)

SpecScholarships == InitScholarships /\ [][NextScholarships]_vars

\* matches: generate for a profile, create one, list
InitMatches ==
  /\ Init
  /\ useAirtable => tblProfiles = <<PriorProfile>>
  /\ tblScholarships \in {<<>>, <<PriorLowercase, PriorResume>>}

NextMatches ==
  \/ PostProfile(Ana, {})
  \/ \E id \in RequestProfileIds \cup {""}, stream \in RandomStreams,
        t \in {{}, {3}, 1..MaxCalls} :
       GenerateMatches(id, stream, t)
  \/ \E m \in MatchInputs, t \in OneCall : CreateScholarshipMatch(m, t)
  \/ \E id \in RequestProfileIds, t \in OneCall : GetMatches(id, t)

SpecMatches == InitMatches /\ [][NextMatches]_vars

\* seeding: bulk clear, then the seed creates
InitSeed ==
  /\ useAirtable \in BOOLEAN
  /\ profileStorage = EmptyObj
  /\ matchStorage = EmptyObj
  /\ applicationStorage = EmptyObj
  /\ tblProfiles = <<>>
  /\ tblMatches = <<>>
  /\ tblGuidance = <<>>
  /\ tblScholarships \in (IF useAirtable THEN {<<>>, <<PriorGoogle>>, PriorBulk} ELSE {<<>>})
  /\ uuidCount = 0
  /\ recCount = 0
  /\ clock = 1
  /\ res = [op |-> "init"]
  /\ cleared = [done |-> FALSE, held |-> 0]
  /\ calls = EmptyObj
  /\ payment = [location |-> [path |-> "/"]]

SeedFaults == {{}, {1}, {2}, {3}, {5}}

NextSeed ==
  \/ \E t \in SeedFaults : SeedScholarships(t)
  \/ \E t \in SeedFaults : ClearAllScholarships(t)
  \/ \E t \in OneCall : CreateScholarship(FirstGen, t)

SpecSeed == InitSeed /\ [][NextSeed]_vars

\* a bulk clear beside the operations that fill the caches
InitClear == InitSeed

NextClear ==
  \/ PostProfile(Ana, {})
  \/ \E m \in MatchInputs : CreateScholarshipMatch(m, {})
  \/ PostApplication([profileId |-> "p1", scholarshipId |-> fallbackId(1),
                      documents |-> <<DocLower>>])
  \/ \E t \in SeedFaults : ClearAllScholarships(t)

SpecClear == InitClear /\ [][NextClear]_vars

\* the scholarship mapper on raw records whose list-typed fields arrive in
\* every form: absent, a native list, a JSON text of a list, a broken text
RawLists ==
  {RawArray(<<"STEM", "Merit-Based">>), RawArray(<<>>),
   RawString(JSONStringify(<<"STEM", "Merit-Based">>)),
   RawString(JSONStringify(<<>>)),
   RawString(<<[t |-> "["], JStr("STEM")>>)}

RawField(k) == {EmptyObj} \cup {(k :> r) : r \in RawLists}

RawRecords ==
  {[id |-> "recL", fields |-> SpreadAll(<<[Title |-> "Listed"], a, b, c>>)] :
     a \in RawField("tags") \cup RawField("Tags"),
     b \in RawField("eligibleFields"),
     c \in RawField("EligibleLevels")}

InitMapper ==
  /\ useAirtable = TRUE
  /\ profileStorage = EmptyObj
  /\ matchStorage = EmptyObj
  /\ applicationStorage = EmptyObj
  /\ tblProfiles = <<>>
  /\ tblMatches = <<>>
  /\ tblGuidance = <<>>
  /\ tblScholarships \in {<<r>> : r \in RawRecords}
  /\ uuidCount = 0
  /\ recCount = 0
  /\ clock = 1
  /\ res = [op |-> "init"]
  /\ cleared = [done |-> FALSE, held |-> 0]
  /\ calls = EmptyObj
  /\ payment = [location |-> [path |-> "/"]]

\* mapToScholarship applied to the i-th record the backend holds
MapScholarship(i) ==
  /\ Tick
  /\ res' = [op |-> "mapToScholarship", record |-> tblScholarships[i],
             value |-> mapToScholarship(tblScholarships[i], clock)]
  /\ UNCHANGED <<useAirtable, caches, tables, uuidCount, recCount, cleared>>

NextMapper == \E i \in 1..Len(tblScholarships) : MapScholarship(i)

SpecMapper == InitMapper /\ [][NextMapper]_vars

\* the request handlers that validate their input
InitRequests == Init /\ tblScholarships = <<>> /\ tblMatches = <<>>

NextRequests ==
  \/ \E body \in ProfileBodies : PostProfile(body, {})
  \/ \E id \in RequestProfileIds, body \in UpdateBodies : PutProfile(id, body, {})
  \/ \E id \in RequestProfileIds \cup {""} :
       GenerateMatches(id, <<RandomResolution \div 2>>, {})
  \/ \E body \in ApplicationBodies : PostApplication(body)

SpecRequests == InitRequests /\ [][NextRequests]_vars

\* the store as a whole: every operation that touches a cache
InitStore == Init /\ tblScholarships = <<>>

NextStore ==
  \/ \E t \in OneCall : PostProfile(Ana, t)
  \/ \E id \in RequestProfileIds : PutProfile(id, [name |-> "Bea", gpa |-> "3.1", id |-> "recX"], {})
  \/ \E id \in RequestProfileIds, t \in OneCall : GetProfile(id, t)
  \/ \E id \in RequestProfileIds : GenerateMatches(id, <<RandomResolution \div 2>>, {})
  \/ \E m \in MatchInputs, t \in OneCall : CreateScholarshipMatch(m, t)
  \/ \E id \in TableIds(tblMatches) \cup {uuid(1)} : UpdateMatchStatus(id, "applied", {})
  \/ \E id \in {"recP", "p1"} :
       PostApplication([profileId |-> id, scholarshipId |-> fallbackId(1),
                        documents |-> <<DocLower>>])

SpecStore == InitStore /\ [][NextStore]_vars

\* repeated generation for a profile, and the listing of its matches
InitGenerate == InitMatches

NextGenerate ==
  \/ PostProfile(Ana, {})
  \/ \E id \in RequestProfileIds, stream \in RandomStreams, t \in {{}, {3}} :
       GenerateMatches(id, stream, t)
  \/ \E id \in RequestProfileIds : GetMatches(id, {})

SpecGenerate == InitGenerate /\ [][NextGenerate]_vars

\* updates of one profile that overlap
InitUpdateRace == InitProfiles

NextUpdateRace ==
  \/ PostProfile(Ana, {})
  \/ \E id \in RequestProfileIds : GetProfile(id, {})
  \/ \E r \in Requests, id \in RequestProfileIds,
        body \in {[phone |-> "999"], [name |-> "Bea", gpa |-> "3.1"]} :
       UpdateBegin(r, id, body)
  \/ \E r \in Requests, threw \in BOOLEAN : UpdateResume(r, threw)

SpecUpdateRace == InitUpdateRace /\ [][NextUpdateRace]_vars

\* generate requests that overlap
InitGenerateRace == InitMatches /\ (useAirtable => tblScholarships # <<>>)

NextGenerateRace ==
  \/ calls = EmptyObj /\ PostProfile(Ana, {})
  \/ \E r \in Requests, id \in RequestProfileIds : GenerateBegin(r, id)
  \/ \E r \in Requests : GenerateProfile(r)
  \/ \E r \in Requests : GenerateScholarships(r)
  \/ \E r \in Requests, threw \in BOOLEAN : GenerateCreated(r, threw)

SpecGenerateRace == InitGenerateRace /\ [][NextGenerateRace]_vars

\* status updates of matches beside their creation and their listing
InitMatchStatus == InitMatches /\ tblScholarships = <<>>

\* the ids a client may name: the cached and the backend's ids of the
\* matches, and an unknown one
RequestMatchIds ==
  TableIds(tblMatches) \cup {"ghost"}
    \cup UNION {{matchStorage[k][i].id : i \in 1..Len(matchStorage[k])} :
                  k \in DOMAIN matchStorage}

NextMatchStatus ==
  \/ \E n \in {1, 3}, t \in OneCall :
       CreateScholarshipMatch([profileId |-> "recP", scholarshipId |-> fallbackId(n),
                               matchScore |-> 80 + n, status |-> "new"], t)
  \/ \E id \in RequestMatchIds, status \in {"applied", "saved"}, t \in OneCall :
       UpdateMatchStatus(id, status, t)
  \/ GetMatches("recP", {})

SpecMatchStatus == InitMatchStatus /\ [][NextMatchStatus]_vars

\* the payment page
InitPayment ==
  /\ useAirtable = FALSE
  /\ profileStorage = EmptyObj
  /\ matchStorage = EmptyObj
  /\ applicationStorage = EmptyObj
  /\ tblProfiles = <<>>
  /\ tblScholarships = <<>>
  /\ tblMatches = <<>>
  /\ tblGuidance = <<>>
  /\ uuidCount = 0
  /\ recCount = 0
  /\ clock = 1
  /\ res = [op |-> "init"]
  /\ cleared = [done |-> FALSE, held |-> 0]
  /\ calls = EmptyObj
  /\ payment = Unmounted([inst |-> 0, timers |-> <<>>], "/guidance", <<>>,
                         [event |-> "init", inst |-> 0])

NextPayment ==
  \/ \E params \in PaymentParams : OpenPayment(params)
  \/ \E m \in PaymentMethods : SetPaymentMethod(m)
  \/ \E f \in CardFields, v \in {"", "x"} : SetCardField(f, v)
  \/ Submit
  \/ TimerFires
  \/ Back

SpecPayment == InitPayment /\ [][NextPayment]_vars

\* a timer that was set fires
SpecPaymentLive == SpecPayment /\ WF_vars(TimerFires)

\* applications
InitApplications ==
  Init /\ tblProfiles = <<>> /\ tblScholarships = <<>> /\ tblMatches = <<>>

NextApplications == \E body \in ApplicationBodies : PostApplication(body)

SpecApplications == InitApplications /\ [][NextApplications]_vars

\* applications of two profiles, submitted and listed
InitApplicationList == Init /\ tblScholarships = <<>>

ListedBodies ==
  {[profileId |-> "p1", scholarshipId |-> fallbackId(1), documents |-> <<DocLower>>,
    status |-> "draft"],
   [profileId |-> "p1", scholarshipId |-> fallbackId(2),
    documents |-> <<DocUpper, DocMixed>>, status |-> "approved"],
   [profileId |-> "p2", scholarshipId |-> fallbackId(2), documents |-> <<DocUpper>>],
   [profileId |-> "p1", scholarshipId |-> fallbackId(3), documents |-> <<DocText>>,
    status |-> "approved"]}

NextApplicationList ==
  \/ \E body \in ListedBodies : PostApplication(body)
  \/ \E id \in {"p1", "p2", "ghost"} : GetApplications(id)

SpecApplicationList == InitApplicationList /\ [][NextApplicationList]_vars

\* the five create operations of the store
InitCreates == InitApplications

NextCreates ==
  \/ \E body \in ProfileBodies, t \in OneCall : PostProfile(body, t)
  \/ \E s \in ScholarshipInputs, t \in OneCall : CreateScholarship(s, t)
  \/ \E m \in MatchInputs, t \in OneCall : CreateScholarshipMatch(m, t)
  \/ \E g \in GuidanceInputs, t \in OneCall : CreateApplicationGuidance(g, t)
  \/ \E body \in ApplicationBodies : PostApplication(body)

SpecCreates == InitCreates /\ [][NextCreates]_vars

(* =============================== claims ================================ *)
CreateOps ==
  {"createStudentProfile", "createScholarship", "createScholarshipMatch",
   "createApplicationGuidance", "createApplication"}

\* C1: every create operation of the store returns an entity with a non-empty
\* id, whether the backend is not configured, succeeds or throws; it never
\* throws to its caller.
C1_CreateNeverFails ==
  (res.op \in CreateOps /\ res.store # "notCalled") =>
     /\ res.store = "returned"
     /\ Has(res.value, "id")
     /\ res.value.id # ""

\* a document name that ends in ".pdf", compared without regard to case
HasPdfSuffix(doc) ==
  /\ Len(doc) >= 4
  /\ doc[Len(doc) - 3] = "."
  /\ doc[Len(doc) - 2] \in {"p", "P"}
  /\ doc[Len(doc) - 1] \in {"d", "D"}
  /\ doc[Len(doc)] \in {"f", "F"}

\* the request carries a profile id, a scholarship id and a document list
CompleteApplicationRequest ==
  /\ res.op = "createApplication"
  /\ TruthyStr(res.body, "profileId")
  /\ TruthyStr(res.body, "scholarshipId")
  /\ Has(res.body, "documents")

C3_AtLeastOneDocument ==
  res.op = "createApplication" =>
     /\ (~Has(res.body, "documents") \/ res.body.documents = <<>>) => res.status # 200
     /\ res.status # 200 => applicationStorage = res.before

\* C4: an update of an existing profile (cached, or held by the backend only)
\* gives every field of the payload the supplied value and leaves every other
\* field, id and createdAt included, as it was.
C4_UpdateKeepsOmittedFields ==
  (res.op = "updateStudentProfile" /\ res.status = 200 /\ res.before # EmptyObj) =>
     \A k \in ProfileKeys \cup {"id", "createdAt"} :
        IF Has(res.input, k)
        THEN Has(res.value, k) /\ res.value[k] = res.input[k]
        ELSE /\ Has(res.value, k) <=> Has(res.before.v, k)
             /\ Has(res.value, k) => res.value[k] = res.before.v[k]

\* the six entities fallback-1 .. fallback-6, stamped with one time
IsFallbackCatalog(list) ==
  /\ Len(list) = FallbackCount
  /\ \A i \in 1..Len(list) : list[i].id = fallbackId(i)
  /\ list = getFallbackScholarships(list[1].createdAt)

\* C5: getAllScholarships never returns an empty list, and returns exactly the
\* fallback catalog when the backend is not configured or its fetch throws.
C5_FallbackWhenUnavailable ==
  res.op = "getAllScholarships" =>
     /\ Len(res.value) > 0
     /\ res.backend \in {"none", "threw"} => IsFallbackCatalog(res.value)

\* C5 witness: the backend holds scholarships, the fetch throws, the catalog
\* is returned
C5_Witness ==
  /\ res.op = "getAllScholarships"
  /\ res.backend = "threw"
  /\ res.held > 0
  /\ IsFallbackCatalog(res.value)

\* C6: a successful generate request creates one match per scholarship, and
\* every record it returns has an integer score in [60, 100] and status "new".
C6_GenerateOnePerScholarship ==
  (res.op = "generateMatches" /\ res.status = 200) =>
     /\ Len(res.matches) = Len(res.scholarshipIds)
     /\ Len(matchStorage[res.profileId]) = res.cachedBefore + Len(res.scholarshipIds)
     /\ \A i \in 1..Len(res.matches) :
          /\ Has(res.matches[i], "matchScore")
          /\ res.matches[i].matchScore \in ScoreBase..(ScoreBase + ScoreSpan)
          /\ Has(res.matches[i], "status")
          /\ res.matches[i].status = "new"

\* C7: getScholarshipById on the id createScholarship just returned finds an
\* entity equal to the input on every input field (inputs here are active and
\* leave no field for the mapper to default; the lookup did not throw).
C7_CreateThenGetRoundTrip ==
  (/\ res.op = "getScholarshipById"
   /\ Has(res, "created")
   /\ res.created.isActive
   /\ res.backend # "threw") =>
     /\ res.found
     /\ \A k \in DOMAIN res.created :
          Has(res.value, k) /\ res.value[k] = res.created[k]

\* C8: a getAllScholarships that follows a completed clearAllScholarships, no
\* scholarship created in between, returns the fallback catalog.
C8_ClearThenListIsFallback ==
  (res.op = "getAllScholarships" /\ res.afterClear.done) => IsFallbackCatalog(res.value)

\* C8 witness: the backend held scholarships, the clear destroyed them, the
\* fetch that followed succeeded and the catalog came back
C8_Witness ==
  /\ res.op = "getAllScholarships"
  /\ res.afterClear.done
  /\ res.afterClear.held > 0
  /\ res.backend = "ok"
  /\ IsFallbackCatalog(res.value)

\* C9: the entity createStudentProfile returns has a non-empty id and equal
\* createdAt and updatedAt, and is the entity cached under that id.
C9_NewProfileStamped ==
  (res.op = "createStudentProfile" /\ res.status = 200) =>
     /\ res.value.id # ""
     /\ res.value.createdAt = res.value.updatedAt
     /\ res.value.id \in DOMAIN profileStorage
     /\ profileStorage[res.value.id] = res.value

\* C9 witness: the backend create threw and the profile was built locally
C9_Witness ==
  /\ res.op = "createStudentProfile"
  /\ res.status = 200
  /\ res.backend = "threw"
  /\ res.value.id # ""
  /\ res.value.createdAt = res.value.updatedAt

\* C10: getScholarshipMatches returns only matches of status "new", in
\* descending score order; it answers from the cache exactly when the cache
\* holds an entry for the profile, and then returns cached matches only; it
\* queries the backend only when the cache holds none.
C10_MatchesNewSortedCacheFirst ==
  res.op = "getScholarshipMatches" =>
     LET cached == MapGetList(matchStorage, res.profileId)
     IN /\ \A i \in 1..Len(res.value) :
             Has(res.value[i], "status") /\ res.value[i].status = "new"
        /\ \A i, j \in 1..Len(res.value) :
             i < j => res.value[i].matchScore >= res.value[j].matchScore
        /\ (res.source = "cache") <=> (Len(cached) > 0)
        /\ res.source = "cache" =>
             \A i \in 1..Len(res.value) :
                \E j \in 1..Len(cached) : cached[j].id = res.value[i].id
        /\ res.source = "backend" => (useAirtable /\ Len(cached) = 0)

\* C10 witness: the cache holds a match that is not "new" and two "new" ones
\* out of order; the answer holds the "new" ones, best first
C10_Witness ==
  /\ res.op = "getScholarshipMatches"
  /\ res.source = "cache"
  /\ Len(res.value) >= 2
  /\ res.value[1].matchScore > res.value[2].matchScore
  /\ LET cached == MapGetList(matchStorage, res.profileId)
     IN /\ \E j \in 1..Len(cached) : cached[j].status # "new"
        /\ \E i, j \in 1..Len(cached) :
             /\ i < j
             /\ cached[i].status = "new"
             /\ cached[j].status = "new"
             /\ cached[i].matchScore < cached[j].matchScore

\* C11: a lookup of a profile id that is not cached returns "not found", and
\* the GET handler answers 404, when the backend is not configured and when
\* the backend fetch throws; nothing is thrown to the caller and nothing is
\* cached.
C11_LookupNeverThrows ==
  (/\ res.op = "getStudentProfileById"
   /\ res.source # "cache"
   /\ res.backend \in {"none", "threw"}) =>
     /\ res.store = "returned"
     /\ ~res.found
     /\ ~Has(res, "value")
     /\ res.status = 404
     /\ res.id \notin DOMAIN profileStorage

\* C11 witness: the backend holds the profile, the fetch throws, the answer
\* is 404
C11_Witness ==
  /\ res.op = "getStudentProfileById"
  /\ res.source # "cache"
  /\ res.backend = "threw"
  /\ res.held
  /\ res.status = 404

\* C12: updateStudentProfile returns an entity that carries the id and every
\* field of the payload, on top of the entity cached before, and stores that
\* same entity in the cache, whether the backend is not configured, its
\* update succeeds or its update throws.
C12_UpdateReturnsMerged ==
  (res.op = "updateStudentProfile" /\ res.store # "notCalled") =>
     /\ res.store = "returned"
     /\ res.status = 200
     /\ res.backend \in {"none", "ok", "threw"}
     /\ res.value.id = res.id
     /\ res.value.updatedAt = clock - 1
     /\ \A k \in DOMAIN res.input : Has(res.value, k) /\ res.value[k] = res.input[k]
     /\ res.wasCached =>
          \A k \in DOMAIN res.before.v \ (DOMAIN res.input \cup {"updatedAt"}) :
             Has(res.value, k) /\ res.value[k] = res.before.v[k]
     /\ res.id \in DOMAIN profileStorage
     /\ profileStorage[res.id] = res.value

\* C12 witness: the backend update throws, the merged entity of a cached
\* profile is returned and cached
C12_Witness ==
  /\ res.op = "updateStudentProfile"
  /\ res.status = 200
  /\ res.backend = "threw"
  /\ res.wasCached
  /\ \E k \in DOMAIN res.input \cap DOMAIN res.before.v :
        res.before.v[k] # res.input[k]
  /\ profileStorage[res.id] = res.value

\* the backend calls a clear of `held` records makes when none throws
ClearCalls(held) == 1 + BatchCount(held)

\* the first call of a clear of `held` records that throws under faults t
FirstFault(held, t) ==
  LET failing == {k \in t : k <= ClearCalls(held)}
  IN CHOOSE k \in failing : \A j \in failing : k <= j

\* some call of the clear throws
ClearFails(held, t) == useAirtable /\ \E k \in t : k <= ClearCalls(held)

\* C13: when the fetch of the record ids or a batch destroy throws,
\* clearAllScholarships throws to its caller having issued no batch after the
\* failing one (the records of the failing and later batches remain), and
\* the seed handler answers 500 having created no scholarship.
C13_ClearFailsOutward ==
  /\ (res.op = "clearAllScholarships" /\ ClearFails(res.held, res.faults)) =>
        /\ res.store = "threw"
        /\ res.destroyCalls = FirstFault(res.held, res.faults) - 1
        /\ Len(tblScholarships) =
             IF res.destroyCalls = 0 THEN res.held
             ELSE res.held - batchSize * (res.destroyCalls - 1)
  /\ (res.op = "seedScholarships" /\ ClearFails(res.held, res.faults)) =>
        /\ res.clear = "threw"
        /\ res.status = 500
        /\ res.destroyCalls = FirstFault(res.held, res.faults) - 1
        /\ res.createCalls = 0
        /\ res.created = 0
        /\ Len(tblScholarships) =
             IF res.destroyCalls = 0 THEN res.held
             ELSE res.held - batchSize * (res.destroyCalls - 1)

\* C13 witness: of three batches the second destroy throws; the seed handler
\* answers 500, the third batch is never issued and nothing is created
C13_Witness ==
  /\ res.op = "seedScholarships"
  /\ res.held > 2 * batchSize
  /\ res.clear = "threw"
  /\ res.destroyCalls = 2
  /\ res.status = 500
  /\ res.created = 0
  /\ Len(tblScholarships) = res.held - batchSize

\* a 4xx status
IsClientError(status) == status \in 400..499

\* C14: a handler answers malformed or missing required input with a 4xx
\* status (profile create, profile update, match generation, application
\* creation, a missing documents field included) and an absent profile with
\* 404, which differs from the status of a validation error.
C14_ValidationIsClientError ==
  /\ (res.op \in {"createStudentProfile", "updateStudentProfile"}
        /\ res.store = "notCalled") => IsClientError(res.status)
  /\ res.op = "generateMatches" =>
        /\ (res.profileId = "") => (IsClientError(res.status) /\ res.status # 404)
        /\ (res.profileId # "" /\ ProfileView(res.profileId) = EmptyObj) =>
              res.status = 404
  /\ (/\ res.op = "createApplication"
      /\ \/ ~TruthyStr(res.body, "profileId")
         \/ ~TruthyStr(res.body, "scholarshipId")
         \/ ~Has(res.body, "documents")) => IsClientError(res.status)

\* the ids of the entities in the lists of a cache
ListIds(storage) ==
  UNION {{storage[k][i].id : i \in 1..Len(storage[k])} : k \in DOMAIN storage}

\* the number of entities in the lists of a cache
RECURSIVE ListTotal(_, _)
ListTotal(storage, keys) ==
  IF keys = {} THEN 0
  ELSE LET k == CHOOSE x \in keys : TRUE
       IN Len(storage[k]) + ListTotal(storage, keys \ {k})

\* no two entities of one type share an id
IdsUnique ==
  /\ \A k \in DOMAIN profileStorage : profileStorage[k].id = k
  /\ Cardinality(ListIds(matchStorage)) = ListTotal(matchStorage, DOMAIN matchStorage)
  /\ Cardinality(ListIds(applicationStorage)) =
       ListTotal(applicationStorage, DOMAIN applicationStorage)
  /\ Cardinality(TableIds(tblProfiles)) = Len(tblProfiles)
  /\ Cardinality(TableIds(tblMatches)) = Len(tblMatches)

\* a step leaves every stored entity under the id it had
IdsKept ==
  /\ \A k \in DOMAIN profileStorage :
        k \in DOMAIN profileStorage' /\ profileStorage'[k].id = profileStorage[k].id
  /\ \A k \in DOMAIN matchStorage : \A i \in 1..Len(matchStorage[k]) :
        /\ k \in DOMAIN matchStorage'
        /\ i <= Len(matchStorage'[k])
        /\ matchStorage'[k][i].id = matchStorage[k][i].id
  /\ \A k \in DOMAIN applicationStorage : \A i \in 1..Len(applicationStorage[k]) :
        /\ k \in DOMAIN applicationStorage'
        /\ i <= Len(applicationStorage'[k])
        /\ applicationStorage'[k][i].id = applicationStorage[k][i].id
  /\ \A i \in 1..Len(tblProfiles) :
        i <= Len(tblProfiles') /\ tblProfiles'[i].id = tblProfiles[i].id
  /\ \A i \in 1..Len(tblMatches) :
        i <= Len(tblMatches') /\ tblMatches'[i].id = tblMatches[i].id

\* C15: in every reachable state no two profiles, matches or applications the
\* store holds share an id, and no step changes the id of a stored entity.
C15_IdsUniqueAndStable == []IdsUnique /\ [][IdsKept]_vars

\* C15 witness: a profile created by the backend and one created locally are
\* both cached, one has been updated, and matches have been generated
C15_Witness ==
  /\ IdsUnique
  /\ res.op = "updateStudentProfile"
  /\ res.status = 200
  /\ res.wasCached
  /\ profileStorage[res.id].id = res.id
  /\ ListTotal(matchStorage, DOMAIN matchStorage) > FallbackCount

\* list a is a prefix of list b
IsPrefix(a, b) == Len(a) <= Len(b) /\ SubSeq(b, 1, Len(a)) = a

\* a step removes nothing from the caches or from the profile, match and
\* guidance tables
NothingDeleted ==
  /\ DOMAIN profileStorage \subseteq DOMAIN profileStorage'
  /\ \A k \in DOMAIN matchStorage :
        k \in DOMAIN matchStorage' /\ IsPrefix(matchStorage[k], matchStorage'[k])
  /\ \A k \in DOMAIN applicationStorage :
        /\ k \in DOMAIN applicationStorage'
        /\ IsPrefix(applicationStorage[k], applicationStorage'[k])
  /\ TableIds(tblProfiles) \subseteq TableIds(tblProfiles')
  /\ TableIds(tblMatches) \subseteq TableIds(tblMatches')
  /\ TableIds(tblGuidance) \subseteq TableIds(tblGuidance')

\* C16: across any sequence of store operations a profile id once cached
\* stays cached, and every cached match list and application list is a
\* prefix of what it is after the next step.
C16_NothingDeleted == [][NothingDeleted]_vars

\* C16 witness: a match is appended to a list that a generation filled, while
\* a profile is cached
C16_Witness ==
  /\ res.op = "createScholarshipMatch"
  /\ Len(matchStorage[res.input.profileId]) > FallbackCount
  /\ DOMAIN profileStorage # {}

\* what a create or a backend fetch returned is what the cache holds
WritesAreCached ==
  /\ (res.op = "createStudentProfile" /\ res.status = 200) =>
        /\ res.value.id \in DOMAIN profileStorage
        /\ profileStorage[res.value.id] = res.value
  /\ (res.op = "getStudentProfileById" /\ res.found) =>
        /\ res.id \in DOMAIN profileStorage
        /\ profileStorage[res.id] = res.value

\* a step keeps every cached profile as it is unless it is an update of that
\* profile, and a lookup of a cached id is answered from the cache, with the
\* cached entity, without a backend call
CachedProfilesServed ==
  \A k \in DOMAIN profileStorage :
     /\ k \in DOMAIN profileStorage'
     /\ \/ profileStorage'[k] = profileStorage[k]
        \/ res'.op = "updateStudentProfile" /\ res'.id = k
     /\ (res'.op = "getStudentProfileById" /\ res'.id = k) =>
           /\ res'.found
           /\ res'.source = "cache"
           /\ res'.backend = "notCalled"
           /\ res'.value = profileStorage[k]
           /\ tblProfiles' = tblProfiles

\* C17: a profile that createStudentProfile returned, or that a lookup
\* fetched from the backend, is in the cache; from then on every lookup of
\* its id is answered from the cache without a backend call, with the entity
\* as cached, which only an updateStudentProfile of that id changes.
C17_ReadYourWrites == []WritesAreCached /\ [][CachedProfilesServed]_vars

\* C17 witness: a profile created locally because the backend create threw
\* is looked up and comes from the cache as created
C17_Witness ==
  /\ res.op = "getStudentProfileById"
  /\ useAirtable
  /\ res.id = uuid(1)
  /\ res.source = "cache"
  /\ res.backend = "notCalled"
  /\ res.value.createdAt = res.value.updatedAt
  /\ FindRecord(tblProfiles, res.id) = EmptyObj

\* the matches of a list that are for scholarship id
MatchesFor(list, id) == {i \in 1..Len(list) : list[i].scholarshipId = id}

\* C18: a generate call for profile P over a catalog of N scholarships
\* appends N matches with fresh ids, one per scholarship in catalog order, to
\* the matches stored for P; with generate the only writer, the k-th call
\* leaves k * N stored matches, k for each scholarship.
C18_GenerateAppendsWithoutDedup ==
  (res.op = "generateMatches" /\ res.status = 200) =>
     LET stored == matchStorage[res.profileId]
         N == Len(res.scholarshipIds)
         k == Len(stored) \div N
     IN /\ N > 0
        /\ Len(stored) = res.cachedBefore + N
        /\ Len(stored) = k * N
        /\ \A i \in 1..N :
             /\ stored[res.cachedBefore + i].scholarshipId = res.scholarshipIds[i]
             /\ \A j \in 1..res.cachedBefore :
                  stored[j].id # stored[res.cachedBefore + i].id
        /\ \A i \in 1..N :
             Cardinality(MatchesFor(stored, res.scholarshipIds[i])) = k

\* C18 witness: a second generate call for the same profile doubles its
\* matches
C18_Witness ==
  /\ res.op = "generateMatches"
  /\ res.status = 200
  /\ res.cachedBefore = Len(res.scholarshipIds)
  /\ Len(matchStorage[res.profileId]) = res.cachedBefore + res.cachedBefore
  /\ Cardinality(MatchesFor(matchStorage[res.profileId], res.scholarshipIds[1])) > 1

\* C19: matches served from the cache are those of the most recent generate
\* call only: no two of them are for the same scholarship.
C19_CacheServesLatestBatch ==
  (res.op = "getScholarshipMatches" /\ res.source = "cache") =>
     \A i, j \in 1..Len(res.value) :
        i # j => res.value[i].scholarshipId # res.value[j].scholarshipId

\* the record has neither title nor organization, in either convention
IsBareRecord(r) ==
  \A key \in {"Title", "title", "Organization", "organization"} : ~TruthyStr(r.fields, key)

\* the mapped record has a title and an organization of its own
IsNamed(s) ==
  s.title # "Untitled Scholarship" /\ s.organization # "Unknown Organization"

\* C20: when the backend fetch succeeds, getAllScholarships returns the
\* fallback catalog if the first record has no title and no organization in
\* either convention, or no mapped record has a title and organization of its
\* own, or there are no records; otherwise it returns the mapped records, one
\* per fetched record and in their order.
C20_DiscardHeuristics ==
  (res.op = "getAllScholarships" /\ res.backend = "ok") =>
     LET records == tblScholarships
         mapped == [i \in 1..Len(records) |-> mapToScholarship(records[i], clock - 1)]
     IN IF \/ Len(records) = 0
           \/ IsBareRecord(records[1])
           \/ \A i \in 1..Len(mapped) : ~IsNamed(mapped[i])
        THEN IsFallbackCatalog(res.value)
        ELSE res.value = mapped

\* C20 witness: the first record is bare, a later one is a full scholarship,
\* and the whole result is discarded for the catalog
C20_Witness ==
  /\ res.op = "getAllScholarships"
  /\ res.backend = "ok"
  /\ Len(tblScholarships) > 1
  /\ IsBareRecord(tblScholarships[1])
  /\ \E i \in 1..Len(tblScholarships) :
        IsNamed(mapToScholarship(tblScholarships[i], clock - 1))
  /\ IsFallbackCatalog(res.value)

\* the update that has just written found the cache changed since its read
Raced ==
  /\ res.op = "updateStudentProfile"
  /\ Has(res, "request")
  /\ res.overwritten # res.read

\* C21: when two updates of one profile have both read the cached entity
\* before either wrote, the later write stores the later payload merged onto
\* the entity as read: on every field outside its payload the cache is back
\* to what was read, so the earlier call's changes are gone.
C21_LastWriteWins ==
  (Raced /\ res.read # EmptyObj) =>
     /\ profileStorage[res.id] = res.value
     /\ \A k \in DOMAIN res.input : profileStorage[res.id][k] = res.input[k]
     /\ \A k \in (ProfileKeys \cup {"id", "createdAt"}) \ DOMAIN res.input :
          /\ Has(profileStorage[res.id], k) <=> Has(res.read.v, k)
          /\ Has(res.read.v, k) => profileStorage[res.id][k] = res.read.v[k]

\* C21 witness: two updates with disjoint payloads read the same cached
\* entity; the first wrote a field the second does not carry, and after the
\* second write that field is as it was before either update
C21_Witness ==
  /\ Raced
  /\ res.read # EmptyObj
  /\ \E other \in DOMAIN calls \ {res.request} :
        /\ calls[other].op = "updateStudentProfile"
        /\ calls[other].pc = "done"
        /\ calls[other].id = res.id
        /\ calls[other].read = res.read
        /\ DOMAIN calls[other].input \cap DOMAIN res.input = {}
        /\ \E k \in DOMAIN calls[other].input :
              /\ Has(res.overwritten.v, k)
              /\ res.overwritten.v[k] = calls[other].input[k]
              /\ ~Has(profileStorage[res.id], k)
                   \/ profileStorage[res.id][k] # calls[other].input[k]

\* the entity an update of an uncached id builds: the payload over empty
\* name, email and location, created at the time of the update
SynthesizedUpdate ==
  (res.op = "updateStudentProfile" /\ res.store = "returned" /\ ~res.wasCached) =>
     /\ DOMAIN res.value =
          {"id", "name", "email", "location", "createdAt", "updatedAt"}
            \cup DOMAIN res.input
     /\ \A k \in DOMAIN res.input : res.value[k] = res.input[k]
     /\ \A k \in {"name", "email", "location"} \ DOMAIN res.input : res.value[k] = ""
     /\ ~Has(res.input, "id") => res.value.id = res.id
     /\ ~Has(res.input, "createdAt") => res.value.createdAt = clock - 1
     /\ res.value.updatedAt = clock - 1
     /\ profileStorage[res.id] = res.value

\* a lookup of an id the cache holds returns the cached entity, never
\* not-found and never the backend's record, and the entity stays cached
SynthesizedServed ==
  \A k \in DOMAIN profileStorage :
     /\ k \in DOMAIN profileStorage'
     /\ (res'.op = "getStudentProfileById" /\ res'.id = k) =>
           /\ res'.status = 200
           /\ res'.value = profileStorage[k]
           /\ profileStorage'[k] = profileStorage[k]
           /\ res'.backend = "notCalled"

\* C22: an update of an id with no cached entity merges the payload onto an
\* empty entity created at the time of the update, whatever the backend
\* holds, and caches the result; every later lookup of the id returns the
\* cached entity rather than not-found or the backend's record.
C22_UncachedUpdateShadows == []SynthesizedUpdate /\ [][SynthesizedServed]_vars

\* C22 witness: the backend holds a named record that was never cached; an
\* update of its id is followed by a lookup that returns the entity with the
\* empty name
C22_Witness ==
  /\ res.op = "getStudentProfileById"
  /\ res.found
  /\ res.source = "cache"
  /\ res.held
  /\ res.value.name = ""
  /\ FindRecord(tblProfiles, res.id).rec.fields.Name # ""
  /\ res.value.createdAt = res.value.updatedAt

\* the ids of a list of batches, one after the other
RECURSIVE Flatten(_)
Flatten(batches) ==
  IF batches = <<>> THEN <<>>
  ELSE Flatten(SubSeq(batches, 1, Len(batches) - 1)) \o batches[Len(batches)]

\* the destroy calls of a clear carry the fetched ids in order, ten at a time
BatchesPartition ==
  res.op = "clearAllScholarships" =>
     /\ Len(res.batches) = res.destroyCalls
     /\ \A j \in 1..Len(res.batches) :
          /\ Len(res.batches[j]) >= 1
          /\ Len(res.batches[j]) <= batchSize
          /\ j < Len(res.batches) => Len(res.batches[j]) = batchSize
     /\ IsPrefix(Flatten(res.batches), res.recordIds)
     /\ res.recordIds = <<>> => res.destroyCalls = 0
     /\ res.store = "returned" =>
          /\ Flatten(res.batches) = res.recordIds
          /\ res.destroyCalls = (Len(res.recordIds) + batchSize - 1) \div batchSize
          /\ \A i \in 1..Len(res.recordIds) :
               res.batches[((i - 1) \div batchSize) + 1][((i - 1) % batchSize) + 1]
                 = res.recordIds[i]

\* a clear leaves the three caches as they are
ClearKeepsCaches ==
  res'.op = "clearAllScholarships" =>
     UNCHANGED <<profileStorage, matchStorage, applicationStorage>>

\* C23: clearAllScholarships destroys the fetched ids in consecutive batches
\* of at most ten, in fetch order, each id in exactly one batch (ceil(n/10)
\* destroy calls, none when nothing was fetched), and leaves the profile,
\* match and application caches as they are.
C23_ClearInBatches == []BatchesPartition /\ [][ClearKeepsCaches]_vars

\* C23 witness: twenty-one records are cleared in three batches of ten, ten
\* and one
C23_Witness ==
  /\ res.op = "clearAllScholarships"
  /\ res.store = "returned"
  /\ Len(res.recordIds) = 2 * batchSize + 1
  /\ Len(res.batches) = 3
  /\ Len(res.batches[3]) = 1
  /\ tblScholarships = <<>>
  /\ DOMAIN profileStorage # {}
  /\ DOMAIN matchStorage # {}

\* the store holds no profile under the id: not in the cache and not in a
\* configured backend
NoProfile(id) ==
  /\ id \notin DOMAIN profileStorage
  /\ ~useAirtable \/ FindRecord(tblProfiles, id) = EmptyObj

\* a generate request that is refused creates nothing
RefusedGenerate ==
  res'.op = "generateMatches" =>
     /\ res'.profileId = "" => res'.status = 400
     /\ (res'.profileId # "" /\ NoProfile(res'.profileId)) => res'.status = 404
     /\ res'.status \in {400, 404} =>
          /\ matchStorage' = matchStorage
          /\ tblMatches' = tblMatches
          /\ uuidCount' = uuidCount
          /\ recCount' = recCount
     /\ res'.status = 200 => ~NoProfile(res'.profileId)

\* C24: a generate request without a profile id is answered with a
\* validation error (400), one whose profile id resolves to no profile with
\* not-found (404); in both cases no match is created and the match cache is
\* unchanged.
C24_GenerateRefused == [][RefusedGenerate]_vars

\* C24 witness: matches were generated for a profile, then a request for an
\* unknown profile is answered 404 and the cached matches are as before
C24_Witness ==
  /\ res.op = "generateMatches"
  /\ res.status = 404
  /\ res.profileId = "ghost"
  /\ DOMAIN matchStorage # {}

\* the list the mapper is to give a raw list-typed field: a native list as it
\* is, a JSON text of a list parsed, anything that does not parse empty
ExpectedList(raw) ==
  IF raw.type = "array" THEN raw.items
  ELSE IF JSONParse(raw.text).ok THEN JSONParse(raw.text).val
  ELSE <<>>

\* C25: mapToScholarship returns an entity for every raw field map, and each
\* of tags, eligibleFields and eligibleLevels that arrives as a native list
\* is passed through, as a JSON text of a list is parsed, and on a parse
\* failure is the empty list.
C25_ListFieldsParseOrEmpty ==
  res.op = "mapToScholarship" =>
     \A x \in {<<"tags", "Tags", "tags">>,
               <<"eligibleFields", "EligibleFields", "eligibleFields">>,
               <<"eligibleLevels", "EligibleLevels", "eligibleLevels">>} :
        LET raw == EitherRaw(res.record.fields, x[1], x[2])
        IN raw # EmptyObj =>
             /\ Has(res.value, x[3])
             /\ res.value[x[3]] = ExpectedList(raw.v)

\* the generate requests, in flight or finished, for a profile
GenerateCalls(profileId) ==
  {r \in DOMAIN calls :
     calls[r].op = "generateMatches" /\ calls[r].profileId = profileId}

\* the number of matches the requests in rs have created
RECURSIVE MadeTotal(_)
MadeTotal(rs) ==
  IF rs = {} THEN 0
  ELSE LET r == CHOOSE x \in rs : TRUE
       IN Len(calls[r].made) + MadeTotal(rs \ {r})

\* C26: createScholarshipMatch appends to the cached list with no suspension
\* between its read and its write, so whatever the interleaving of
\* concurrent generate requests, every match a request has created is in the
\* cached list of its profile, and the list holds nothing else; in
\* particular once all requests have finished no cached match is lost.
C26_NoCachedMatchLost ==
  \A r \in DOMAIN calls :
     calls[r].op = "generateMatches" =>
        LET cached == MapGetList(matchStorage, calls[r].profileId)
        IN /\ \A j \in 1..Len(calls[r].made) :
                \E i \in 1..Len(cached) : cached[i] = calls[r].made[j]
           /\ Len(cached) = MadeTotal(GenerateCalls(calls[r].profileId))

\* C26 witness: two requests for one profile have both finished, their
\* creates interleaved (a match of one lies between two of the other in the
\* cache), and the cache holds the matches of both
C26_Witness ==
  /\ DOMAIN calls = Requests
  /\ \A r \in Requests : calls[r].pc = "done" /\ calls[r].status = 200
  /\ calls["A"].profileId = calls["B"].profileId
  /\ LET cached == matchStorage[calls["A"].profileId]
         of(r) == {i \in 1..Len(cached) :
                     \E j \in 1..Len(calls[r].made) : cached[i] = calls[r].made[j]}
     IN /\ Len(cached) = Len(calls["A"].made) + Len(calls["B"].made)
        /\ \E i \in of("A"), j \in of("B"), k \in of("A") : i < j /\ j < k

\* C27: getScholarshipById returns not-found or a scholarship whose id is
\* the requested id, whatever the backend state; so every match that
\* getScholarshipMatches returns carries the scholarship its scholarshipId
\* names.
C27_LookupReturnsRequestedId ==
  /\ (res.op = "getScholarshipById" /\ res.found) => res.value.id = res.id
  /\ res.op = "getScholarshipMatches" =>
        \A i \in 1..Len(res.value) :
           res.value[i].scholarship.id = res.value[i].scholarshipId

\* the cached match m is the one the status update named: by its own id, or
\* by the id of the backend record written for it
NamedByUpdate(m, matchId) ==
  \/ m.id = matchId
  \/ /\ useAirtable
     /\ FindRecord(tblMatches, matchId) # EmptyObj
     /\ FindRecord(tblMatches, matchId).rec.fields.id = m.id

\* a status update leaves the match cache as it is, and a listing that
\* follows a successful update to a status other than "new" still returns the
\* cached match the update named, with status "new"
StatusUpdateKeepsCache ==
  /\ res'.op = "updateMatchStatus" => matchStorage' = matchStorage
  /\ (/\ res.op = "updateMatchStatus"
      /\ res.status = 200
      /\ res.value.status # "new"
      /\ res'.op = "getScholarshipMatches") =>
        \A m \in {matchStorage[res'.profileId][i] :
                    i \in 1..Len(MapGetList(matchStorage, res'.profileId))} :
           (NamedByUpdate(m, res.matchId) /\ m.status = "new") =>
              \E i \in 1..Len(res'.value) :
                 /\ res'.value[i].id = m.id
                 /\ res'.value[i].status = "new"

\* C28: updateMatchStatus never modifies the match cache, with or without a
\* backend; a cached match whose status was updated to something other than
\* "new" is still returned by getScholarshipMatches, with status "new".
C28_StatusUpdateNotCached == [][StatusUpdateKeepsCache]_vars

\* C28 witness: the backend record of a cached match carries the status
\* "applied" after an update, and the listing returns the match as "new"
C28_Witness ==
  /\ res.op = "getScholarshipMatches"
  /\ res.source = "cache"
  /\ \E i \in 1..Len(res.value), j \in 1..Len(tblMatches) :
        /\ Has(tblMatches[j].fields, "id")
        /\ tblMatches[j].fields.id = res.value[i].id
        /\ Has(tblMatches[j].fields, "status")
        /\ tblMatches[j].fields.status = "applied"
        /\ res.value[i].status = "new"

\* every cached application is pending and filed under its own profile, and
\* a listing returns the profile's cached list, oldest first
ApplicationsPending ==
  /\ \A k \in DOMAIN applicationStorage :
        \A i \in 1..Len(applicationStorage[k]) :
           /\ applicationStorage[k][i].status = "pending"
           /\ applicationStorage[k][i].studentProfileId = k
  /\ res.op = "getApplications" =>
        /\ res.value = MapGetList(applicationStorage, res.profileId)
        /\ \A i \in 1..Len(res.value) : \A j \in 1..Len(res.value) :
              i < j => res.value[i].appliedAt < res.value[j].appliedAt

\* an accepted request appends one pending application to the list of the
\* requesting profile and writes nothing else: no other list, no table
ApplicationAppended ==
  res'.op = "createApplication" =>
     /\ UNCHANGED <<tblProfiles, tblScholarships, tblMatches, tblGuidance, recCount>>
     /\ UNCHANGED <<profileStorage, matchStorage>>
     /\ IF res'.status = 200
        THEN /\ res'.value.status = "pending"
             /\ DOMAIN applicationStorage' =
                  DOMAIN applicationStorage \cup {res'.body.profileId}
             /\ applicationStorage'[res'.body.profileId] =
                  Append(MapGetList(applicationStorage, res'.body.profileId), res'.value)
             /\ \A k \in DOMAIN applicationStorage \ {res'.body.profileId} :
                  applicationStorage'[k] = applicationStorage[k]
        ELSE applicationStorage' = applicationStorage

\* C29: every application stored through POST /api/applications has status
\* "pending" whatever status the request supplied, is appended to the list
\* of the requesting profile only, and is returned by getApplications in
\* creation order; it is held in the cache only, with or without a backend.
C29_ApplicationsPendingInOrder == []ApplicationsPending /\ [][ApplicationAppended]_vars

\* C29 witness: with a backend configured, two applications of one profile
\* were submitted as "draft" and "approved"; the listing returns both as
\* pending, in the order submitted, and no table holds a record
C29_Witness ==
  /\ res.op = "getApplications"
  /\ useAirtable
  /\ Len(res.value) = 2
  /\ res.value[1].scholarshipId = fallbackId(1)
  /\ res.value[2].scholarshipId = fallbackId(2)
  /\ res.value[1].status = "pending"
  /\ res.value[2].status = "pending"
  /\ tblGuidance = <<>>
  /\ recCount = 0

\* the pending timers of the i-th opening of the payment page
TimersOf(i) == {k \in 1..Len(payment.timers) : payment.timers[k].inst = i}

\* a submit with an incomplete card changes nothing but the alert; a submit
\* that starts processing had a complete card or another method, found the
\* flag clear, sets it and sets one timer that carries the counselor name;
\* the redirect goes to the success page with that name in its query
PaymentStep ==
  /\ (payment'.last.event = "alert" /\ payment' # payment) =>
        /\ CardIncomplete(payment)
        /\ payment'.isProcessing = payment.isProcessing
        /\ payment'.timers = payment.timers
        /\ payment'.location = payment.location
  /\ (payment'.last.event = "processing" /\ payment' # payment) =>
        /\ ~CardIncomplete(payment)
        /\ ~payment.isProcessing
        /\ payment'.isProcessing
        /\ payment'.location = payment.location
        /\ payment'.timers =
             Append(payment.timers,
                    [inst |-> payment.inst, name |-> payment.counselorName])
        /\ payment.counselorName # <<>>
  /\ (payment'.last.event = "redirect" /\ payment' # payment) =>
        /\ payment.timers # <<>>
        /\ payment'.location.path = "/payment-success"
        /\ ParamsGet(payment'.location.query) = Head(payment.timers).name
        /\ ~payment'.isProcessing
  /\ payment'.location.path = "/payment-success" =>
        \/ payment'.last.event = "redirect"
        \/ payment'.location = payment.location

\* the flag of the page on screen is set exactly while its one timer is
\* pending, and no opening of the page ever has two timers pending
OneProcessing ==
  /\ \A i \in 1..MaxMounts : Cardinality(TimersOf(i)) <= 1
  /\ payment.mounted =>
        (payment.isProcessing <=> TimersOf(payment.inst) # {})

\* the processing the i-th opening started has ended in the redirect
Redirected(i) ==
  /\ payment.last = [event |-> "redirect", inst |-> i]
  /\ payment.location.path = "/payment-success"
  /\ TimersOf(i) = {}
  /\ ~payment.isProcessing

\* C30: a submit with method "card" and a card field empty starts no
\* processing and no redirect; any other submit sets the processing flag; the
\* submit button is disabled while the flag is set, so no second submit
\* starts; every processing that started ends with the flag cleared and the
\* location at the payment-success page, the counselor name in its query.
C30_PaymentFlow ==
  /\ [][PaymentStep]_vars
  /\ []OneProcessing
  /\ \A i \in 1..MaxMounts : (TimersOf(i) # {}) ~> Redirected(i)

\* C30 witness: a page opened for a counselor whose name needs escaping was
\* submitted with another method than card, and the redirect carries the
\* name, escaped in the query and read back unchanged
C30_Witness ==
  /\ payment.last.event = "redirect"
  /\ payment.location.path = "/payment-success"
  /\ payment.location.query # ParamsGet(payment.location.query)
  /\ ParamsGet(payment.location.query) = <<"A", "&", "B", " ", "C", "+">>
  /\ payment.timers = <<>>

====
